---- MODULE Spec2Model ----
(***************************************************************************)
(* State-machine model of greed_bot's cache-aware acquisition service      *)
(* (src/data/cache_service.py over src/data/database.py) and of its        *)
(* timezone-aware notification scheduler (src/bot/scheduler.py).           *)
(*                                                                         *)
(* Time is the UTC wall clock in whole minutes since 00:00 of day 0.       *)
(* Python dicts and ORM rows are records; Python's None is the record None.*)
(***************************************************************************)
EXTENDS Integers, Sequences, FiniteSets, TLC

VARIABLES
    now,                    \* datetime.utcnow(), in minutes
    rows,                   \* table fear_greed_data: a set of FearGreedData rows
    nextId,                 \* the table's autoincrement counter
    cache_timeout_minutes,  \* CacheAwareFearGreedService.cache_timeout_minutes of the
                            \* SmartDataFetcher _smart_fetcher_instance holds; -1 while it is None
    storeUp,                \* TRUE while the database answers; FALSE: every session call raises
    lastFetchAt,            \* time of the last adapter call that returned a snapshot, -1 if none
    users,                  \* table users: telegram_id -> row
    outbox,                 \* the messages the delivery sink accepted: [to, at, by]
    matchLog,               \* per user, the ticks that found the user's local time on its push time
    testRuns,               \* the admin's test notifications so far
    calls,                  \* per coroutine, where its get_current_fear_greed_index stands
    bot,                    \* the GreedBot object of main.py: app, scheduler, is_running
    _scheduler_instance,    \* scheduler.py's global: None or the NotificationScheduler
    schedulers,             \* the NotificationSchedulers the global no longer refers to
    instances,              \* per job, the runs of its function now executing: [id, by]
    ret                     \* what the last handler was called with, saw and returned

cacheVars == <<rows, nextId, cache_timeout_minutes, storeUp, lastFetchAt>>
notifyVars == <<users, outbox, matchLog, testRuns>>
raceVars == <<calls>>
jobVars == <<bot, _scheduler_instance, schedulers, instances>>
vars == <<now, cacheVars, notifyVars, raceVars, jobVars, ret>>

-----------------------------------------------------------------------------
(* Bounds of the model *)

\* the clock starts at StartTime (23:00 of day 0, so that a run crosses midnight)
StartTime == 1380
\* the clock readings at which handlers run, in minutes after StartTime: gaps of
\* 10, 20, 30, 60, 90, 180 and 190 minutes all occur, and 60 is midnight
Offsets == <<0, 10, 30, 60, 70, 100, 190, 250, 260, 290>>
\* how many of these readings a run may use
MaxPoints == 8
Times == {StartTime + Offsets[i] : i \in 1..MaxPoints}
\* freshness windows a service instance is built with (handlers.py:44 asks 30, scheduler.py:29 asks 60)
FreshnessWindows == {30, 60}

\* the users table holds users 1..MaxUsers
MaxUsers == 2
UserIds == 1..MaxUsers
\* the language_code of user u: the column default for odd ids, "en" for even
LanguageOf(u) == IF u % 2 = 1 THEN "zh" ELSE "en"
\* user i lives in Zones[i]; the last name is one ZoneInfo does not know
Zones == <<"Asia/Tokyo", "UTC", "Mars/Olympus", "Pacific/Pago_Pago", "Pacific/Tongatapu">>
\* the push times a user picks
PushTimes == {"09:00", "21:00"}
\* the clock readings of the notification runs: 00:00, 09:00, 12:00 and 21:00
\* UTC of day 1, then 00:00, 00:01 and 09:00 of day 2
TickTimes == <<1440, 1980, 2160, 2700, 2880, 2881, 3420>>
MaxTickPoints == 4
NotifyTimes == {TickTimes[i] : i \in 1..MaxTickPoints}
\* admin test notifications in one run
MaxTestSends == 1
\* the clock readings of the notification runs over users of any zone: 00:00,
\* 09:00 and 20:00 UTC of day 1, 20:00 UTC of day 2, then 08:00 UTC of day 3
ZoneTickTimes == <<1440, 1980, 2640, 4080, 4800>>
MaxZonePoints == 4
ZoneTimes == {ZoneTickTimes[i] : i \in 1..MaxZonePoints}
\* coroutines that run get_current_fear_greed_index side by side
MaxCalls == 2
Coroutines == 1..MaxCalls
\* the clock readings of the interleaved runs
MaxRacePoints == 2
RaceTimes == {StartTime + Offsets[i] : i \in 1..MaxRacePoints}

-----------------------------------------------------------------------------
(* Values *)

None == [tag |-> "None"]
\* an exception leaving a call
Raised == [tag |-> "Exception"]
\* None (SQL NULL) where the other values are integers
NullInt == 0 - 1

\* dict.get(k, default)
Get(d, k, default) == IF k \in DOMAIN d THEN d[k] ELSE default

MinutesPerDay == 1440
\* datetime.date(): the UTC calendar day of a time
DateOf(t) == t \div MinutesPerDay

\* what FearGreedDataFetcher.get_current_fear_greed_index can hand back: a parsed
\* snapshot of one of the two providers
Snapshots ==
    { [current_value |-> 0, rating |-> "extreme fear", last_update |-> 0,
       previous_close |-> 12, source |-> "CNN Official API"],
      [current_value |-> 40, rating |-> "Fear", last_update |-> 0,
       previous_close |-> NullInt, source |-> "Alternative.me API"] }

\* one call of the Source Adapter: a snapshot, None (all providers failed), or an
\* exception out of the fetcher (aiohttp session set-up, __aexit__)
AdapterOutcomes == Snapshots \cup {None, Raised}

-----------------------------------------------------------------------------
(* src/data/database.py: the FearGreedData repository *)

\* FearGreedDataDTO built by save_fear_greed_data_to_cache; date = utcnow()
FearGreedDataDTO(data, t) ==
    LET cv  == Get(data, "current_value", 0)
        cur == IF cv = 0 THEN Get(data, "score", 0) ELSE cv
    IN  [current_value  |-> cur,
         rating         |-> Get(data, "rating", "Unknown"),
         previous_close |-> Get(data, "previous_close", NullInt),
         source         |-> Get(data, "source", "Unknown"),
         date           |-> t]

\* a row as session.add(FearGreedData(...)) and commit leave it; created_at
\* takes its column default, utcnow()
NewRow(nid, t, dto) ==
    [id |-> nid, date |-> dto.date, current_value |-> dto.current_value,
     rating |-> dto.rating, previous_close |-> dto.previous_close,
     source |-> dto.source, created_at |-> t]

\* what a save answers: raised (the exception left the repository) or the store it leaves
Saved(raised, rs, nid) == [raised |-> raised, rows |-> rs, nextId |-> nid]

\* a save that forgets to advance created_at on the update path
save_fear_greed_data_keeps_created_at(rs, nid, t, up, dto) ==
    LET existing == {r \in rs : DateOf(r.date) = DateOf(t)}
    IN  IF ~up \/ Cardinality(existing) > 1
        THEN Saved(TRUE, rs, nid)
        ELSE IF existing # {}
        THEN LET e == CHOOSE r \in existing : TRUE
             IN  Saved(FALSE,
                       (rs \ {e}) \cup
                           {[e EXCEPT !.current_value = dto.current_value,
                                      !.rating = dto.rating,
                                      !.previous_close = dto.previous_close,
                                      !.source = dto.source]},
                       nid)
        ELSE Saved(FALSE, rs \cup {NewRow(nid, t, dto)}, nid + 1)

\* a save that inserts without looking for today's row
save_fear_greed_data_always_inserts(rs, nid, t, up, dto) ==
    IF ~up THEN Saved(TRUE, rs, nid)
    ELSE Saved(FALSE, rs \cup {NewRow(nid, t, dto)}, nid + 1)

\* FearGreedRepository.save_fear_greed_data at time t: the row whose date lies in
\* today (UTC) is updated in place, created_at included; otherwise a row is
\* inserted. The session raises when the store is down, and scalar_one_or_none()
\* raises when today holds more than one row.
save_fear_greed_data(rs, nid, t, up, dto) ==
    LET existing == {r \in rs : DateOf(r.date) = DateOf(t)}
    IN  IF ~up \/ Cardinality(existing) > 1
        THEN Saved(TRUE, rs, nid)
        ELSE IF existing # {}
        THEN LET e == CHOOSE r \in existing : TRUE
             IN  Saved(FALSE,
                       (rs \ {e}) \cup
                           {[e EXCEPT !.current_value = dto.current_value,
                                      !.rating = dto.rating,
                                      !.previous_close = dto.previous_close,
                                      !.source = dto.source,
                                      !.created_at = t]},
                       nid)
        ELSE Saved(FALSE, rs \cup {NewRow(nid, t, dto)}, nid + 1)

\* a save that reports success without writing
save_fear_greed_data_to_cache_skips(rs, nid, t, up, data) ==
    [ok |-> TRUE, rows |-> rs, nextId |-> nid]

\* save_fear_greed_data_to_cache: True when the save went through; any exception
\* is logged and turned into False
save_fear_greed_data_to_cache(rs, nid, t, up, data) ==
    LET sv == save_fear_greed_data(rs, nid, t, up, FearGreedDataDTO(data, t))
    IN  [ok |-> ~sv.raised, rows |-> sv.rows, nextId |-> sv.nextId]

\* FearGreedRepository.get_latest_fear_greed_data: the rows the query
\* "created_at >= cutoff ORDER BY created_at DESC LIMIT 1" may return
\* (any of the newest when created_at ties), None when there is none; the
\* session raises when the store is down
get_latest_fear_greed_data(rs, t, up, max_age_minutes) ==
    LET cutoff_time == t - max_age_minutes
        found == {r \in rs : r.created_at >= cutoff_time}
    IN  IF ~up THEN {Raised}
        ELSE IF found = {} THEN {None}
        ELSE {r \in found : \A q \in found : q.created_at <= r.created_at}

\* get_cached_fear_greed_data: the row as a dict; None when nothing is found or
\* the repository raises
get_cached_fear_greed_data(rs, t, up, timeout) ==
    { IF r = None \/ r = Raised THEN None
      ELSE [current_value  |-> r.current_value,
            rating         |-> r.rating,
            last_update    |-> r.date,
            previous_close |-> r.previous_close,
            source         |-> r.source,
            cached         |-> TRUE,
            cache_time     |-> r.created_at]
    : r \in get_latest_fear_greed_data(rs, t, up, timeout) }

-----------------------------------------------------------------------------
(* src/data/fetcher.py: FearGreedDataFetcher *)

\* config.MAX_RETRIES, by default
MAX_RETRIES == 3

\* the empty dict a parser returns after an exception
EmptyDict == [tag |-> "EmptyDict"]

\* Python truth of what a fetch step returns: None and {} are false
Truthy(d) == d # None /\ d # EmptyDict

\* a JSON document: an object carries its members, anything else its kind
JObj(members) == [json |-> "object", members |-> members]
JOther == [json |-> "array"]

\* what a provider may answer to one GET: the request raises (timeout,
\* connection error), a status other than 200, a 200 whose body is no JSON
\* (response.json() raises), or a 200 with a JSON body
NetError == [kind |-> "error"]
Status(code) == [kind |-> "status", status |-> code]
NotJson == [kind |-> "notjson"]
Json(body) == [kind |-> "json", body |-> body]

\* bodies of the CNN endpoint: a score in range, a score out of range, no
\* fear_and_greed member, a body that is no object
CnnBodies ==
    { JObj([fear_and_greed |-> JObj([score |-> 40, rating |-> "fear", previous_close |-> 12])]),
      JObj([fear_and_greed |-> JObj([score |-> 150, rating |-> "extreme greed",
                                     previous_close |-> 12])]),
      JObj([error |-> "not found"]),
      JOther }

CnnResponses == {NetError, Status(418), Status(500), NotJson} \cup {Json(b) : b \in CnnBodies}

\* the strings the backup endpoint sends as value that int() accepts, and
\* what int() makes of them; on any other string it raises ValueError
IntStrings == {"40", "150", "-5"}
IntOf(s) ==
    CASE s = "40" -> 40
      [] s = "150" -> 150
      [] s = "-5" -> 0 - 5

\* bodies of the Alternative.me endpoint: a value in range, out of range, a
\* value that is no number, no value member, an empty data list, no object
BackupBodies ==
    { JObj([data |-> << [value |-> "40", value_classification |-> "Fear"] >>]),
      JObj([data |-> << [value |-> "150", value_classification |-> "Extreme Greed"] >>]),
      JObj([data |-> << [value |-> "n/a", value_classification |-> "Fear"] >>]),
      JObj([data |-> << [value_classification |-> "Fear"] >>]),
      JObj([data |-> << >>]),
      JOther }

BackupResponses == {NetError, Status(500), NotJson} \cup {Json(b) : b \in BackupBodies}

\* random.uniform(1, 3), in seconds
Delays == {1, 2, 3}

\* FearGreedDataFetcher._parse_cnn_data: members that are missing take their
\* defaults; an exception (data or fear_and_greed is no dict) gives {}
_parse_cnn_data(data) ==
    IF data.json # "object" THEN EmptyDict
    ELSE LET fear_greed_data == Get(data.members, "fear_and_greed", JObj([x \in {} |-> 0]))
         IN  IF fear_greed_data.json # "object" THEN EmptyDict
             ELSE [current_value  |-> Get(fear_greed_data.members, "score", 0),
                   rating         |-> Get(fear_greed_data.members, "rating", "Unknown"),
                   last_update    |-> Get(fear_greed_data.members, "timestamp", 0),
                   previous_close |-> Get(fear_greed_data.members, "previous_close", 0),
                   source         |-> "CNN Official API"]

\* FearGreedDataFetcher._parse_backup_data: the first entry of data, its value
\* through int() with 50 for a missing one; {} when data is missing or empty
\* or an exception is raised
_parse_backup_data(data) ==
    IF data.json # "object" THEN EmptyDict
    ELSE IF "data" \notin DOMAIN data.members THEN EmptyDict
    ELSE IF Len(data.members.data) = 0 THEN EmptyDict
    ELSE LET latest_data == data.members.data[1]
         IN  IF "value" \in DOMAIN latest_data /\ latest_data.value \notin IntStrings
             THEN EmptyDict
             ELSE [current_value  |-> IF "value" \in DOMAIN latest_data
                                      THEN IntOf(latest_data.value) ELSE 50,
                   rating         |-> Get(latest_data, "value_classification", "Unknown"),
                   last_update    |-> 0,
                   previous_close |-> NullInt,
                   source         |-> "Alternative.me API"]

\* what one call did on the wire, in order: sleeps and GET requests, each
\* request with the response it received
Sleep(seconds) == [ev |-> "sleep", seconds |-> seconds]
Request(provider, response) == [ev |-> "get", provider |-> provider, response |-> response]

\* what a fetch step gives back: its return value and what it did on the wire
FetchStep(result, trace) == [result |-> result, trace |-> trace]

\* the body of the for loop of _fetch_from_cnn_api from one attempt on:
\* responses[attempt + 1] answers this attempt's GET, delays[attempt] is what
\* random.uniform(1, 3) draws before it
RECURSIVE CnnAttempts(_, _, _)
CnnAttempts(attempt, responses, delays) ==
    IF attempt >= MAX_RETRIES THEN FetchStep(None, << >>)
    ELSE LET slept == IF attempt > 0 THEN << Sleep(delays[attempt]) >> ELSE << >>
             response == responses[attempt + 1]
             done == slept \o << Request("cnn", response) >>
         IN  IF response.kind = "json"
             THEN FetchStep(_parse_cnn_data(response.body), done)
             ELSE IF response.kind \in {"error", "notjson"} /\ attempt = MAX_RETRIES - 1
             THEN FetchStep(None, done)
             ELSE LET rest == CnnAttempts(attempt + 1, responses, delays)
                  IN  FetchStep(rest.result, done \o rest.trace)

\* a retry loop that does not wait between attempts
_fetch_from_cnn_api_no_delay(responses, delays) ==
    LET f == CnnAttempts(0, responses, delays)
    IN  FetchStep(f.result, SelectSeq(f.trace, LAMBDA e : e.ev # "sleep"))

\* FearGreedDataFetcher._fetch_from_cnn_api
_fetch_from_cnn_api(responses, delays) == CnnAttempts(0, responses, delays)

\* a backup step that asks again after a failed request
_fetch_from_backup_source_retries(response) ==
    LET result == IF response.kind = "json" THEN _parse_backup_data(response.body) ELSE None
    IN  FetchStep(result, IF response.kind = "json"
                        THEN << Request("backup", response) >>
                        ELSE << Request("backup", response), Request("backup", response) >>)

\* FearGreedDataFetcher._fetch_from_backup_source: one GET, no loop
_fetch_from_backup_source(response) ==
    FetchStep(IF response.kind = "json" THEN _parse_backup_data(response.body) ELSE None,
            << Request("backup", response) >>)

\* FearGreedDataFetcher.get_current_fear_greed_index: the backup source is
\* asked when what the CNN step returned is false (None or {})
FearGreedDataFetcher_get_current_fear_greed_index(responses, delays, backup) ==
    LET data == _fetch_from_cnn_api(responses, delays)
    IN  IF Truthy(data.result) THEN data
        ELSE LET backup_data == _fetch_from_backup_source(backup)
             IN  FetchStep(IF Truthy(backup_data.result) THEN backup_data.result ELSE None,
                         data.trace \o backup_data.trace)

-----------------------------------------------------------------------------
(* src/data/cache_service.py: CacheAwareFearGreedService *)

\* the window of the fallback read, hard-coded in get_current_fear_greed_index
StaleWindow == 180

\* a fetch wrapper that answers a failure with a default-valued snapshot
_fetch_fresh_data_defaults(api) ==
    IF api = Raised \/ api = None
    THEN [current_value |-> 0, rating |-> "Unknown", last_update |-> 0,
          previous_close |-> NullInt, source |-> "Unknown"]
    ELSE api

\* _fetch_fresh_data: the adapter's answer, None when the adapter raises
_fetch_fresh_data(api) == IF api = Raised THEN None ELSE api

\* a formatter that drops the stale tag
_format_cached_data_never_stale(cached_data) ==
    [score          |-> Get(cached_data, "current_value", 0),
     rating         |-> Get(cached_data, "rating", "Unknown"),
     timestamp      |-> Get(cached_data, "last_update", 0),
     previous_close |-> Get(cached_data, "previous_close", NullInt),
     source         |-> Get(cached_data, "source", "Unknown"),
     cached         |-> TRUE,
     cache_time     |-> Get(cached_data, "cache_time", NullInt),
     is_stale       |-> FALSE]

\* _format_cached_data: the cached dict in the shape of the API answer
_format_cached_data(cached_data) ==
    [score          |-> Get(cached_data, "current_value", 0),
     rating         |-> Get(cached_data, "rating", "Unknown"),
     timestamp      |-> Get(cached_data, "last_update", 0),
     previous_close |-> Get(cached_data, "previous_close", NullInt),
     source         |-> Get(cached_data, "source", "Unknown"),
     cached         |-> TRUE,
     cache_time     |-> Get(cached_data, "cache_time", NullInt),
     is_stale       |-> Get(cached_data, "is_stale", FALSE)]

\* _format_api_data: the adapter's dict, tagged cached = False
_format_api_data(api_data) ==
    [score          |-> Get(api_data, "current_value", 0),
     rating         |-> Get(api_data, "rating", "Unknown"),
     timestamp      |-> Get(api_data, "last_update", 0),
     previous_close |-> Get(api_data, "previous_close", NullInt),
     source         |-> Get(api_data, "source", "Unknown"),
     cached         |-> FALSE,
     fresh          |-> TRUE]

\* the outcome of one call: what it returns, the store it leaves, whether the
\* Source Adapter was invoked and whether a save succeeded
Outcome(result, rs, nid, invoked, saved) ==
    [result |-> result, rows |-> rs, nextId |-> nid, invoked |-> invoked, saved |-> saved]

\* a fallback that serves the newest row however old it is
FetchSaveOrFallback_any_age(rs, nid, t, up, api) ==
    LET fresh_data == _fetch_fresh_data(api)
    IN  IF fresh_data # None /\ fresh_data # Raised
        THEN LET sv == save_fear_greed_data_to_cache(rs, nid, t, up, fresh_data)
             IN  {Outcome(_format_api_data(fresh_data), sv.rows, sv.nextId, TRUE, sv.ok)}
        ELSE { IF fallback_data = None
               THEN Outcome(None, rs, nid, TRUE, FALSE)
               ELSE Outcome(_format_cached_data(("is_stale" :> TRUE) @@ fallback_data),
                            rs, nid, TRUE, FALSE)
             : fallback_data \in get_cached_fear_greed_data(rs, t, up, t + 1) }

\* the steps after a cache miss or with force_refresh (cache_service.py:51-74)
FetchSaveOrFallback(rs, nid, t, up, api) ==
    LET fresh_data == _fetch_fresh_data(api)
    IN  IF fresh_data = Raised
        THEN {Outcome(Raised, rs, nid, TRUE, FALSE)}
        ELSE IF fresh_data # None
        THEN LET sv == save_fear_greed_data_to_cache(rs, nid, t, up, fresh_data)
             IN  {Outcome(_format_api_data(fresh_data), sv.rows, sv.nextId, TRUE, sv.ok)}
        ELSE { IF fallback_data = None
               THEN Outcome(None, rs, nid, TRUE, FALSE)
               ELSE Outcome(_format_cached_data(("is_stale" :> TRUE) @@ fallback_data),
                            rs, nid, TRUE, FALSE)
             : fallback_data \in get_cached_fear_greed_data(rs, t, up, StaleWindow) }

\* a service that looks at the cache first even when asked to refresh
get_current_fear_greed_index_ignores_force(rs, nid, t, up, F, force_refresh, api) ==
    UNION { IF cached_data # None
            THEN {Outcome(_format_cached_data(cached_data), rs, nid, FALSE, FALSE)}
            ELSE FetchSaveOrFallback(rs, nid, t, up, api)
          : cached_data \in get_cached_fear_greed_data(rs, t, up, F) }

\* a service that never looks at the cache first
get_current_fear_greed_index_no_cache(rs, nid, t, up, F, force_refresh, api) ==
    FetchSaveOrFallback(rs, nid, t, up, api)

\* CacheAwareFearGreedService.get_current_fear_greed_index: the set of outcomes
\* of a call at time t on store rs with freshness window F. An exception raised
\* anywhere inside is logged and None is returned.
get_current_fear_greed_index(rs, nid, t, up, F, force_refresh, api) ==
    LET body ==
          UNION { IF cached_data # None
                  THEN {Outcome(_format_cached_data(cached_data), rs, nid, FALSE, FALSE)}
                  ELSE FetchSaveOrFallback(rs, nid, t, up, api)
                : cached_data \in IF force_refresh THEN {None}
                                  ELSE get_cached_fear_greed_data(rs, t, up, F) }
    IN  { IF o.result = Raised THEN [o EXCEPT !.result = None] ELSE o : o \in body }

\* the window of the read of get_cache_status: 24 hours, hard-coded
StatusWindow == 1440

\* a status call that refreshes the cache when it finds it stale
get_cache_status_refreshes(rs, nid, t, up, F, api) ==
    { Outcome([has_cache |-> o.result # None], o.rows, o.nextId, o.invoked, o.saved)
    : o \in get_current_fear_greed_index(rs, nid, t, up, F, FALSE, api) }

\* CacheAwareFearGreedService.get_cache_status at time t: one read of the
\* newest row of the last 24 hours and its age against the freshness window;
\* api is what the Source Adapter would answer if it were asked
get_cache_status(rs, nid, t, up, F, api) ==
    { IF cached_data # None
      THEN Outcome([has_cache         |-> TRUE,
                    cache_age_minutes |-> t - cached_data.cache_time,
                    is_fresh          |-> t - cached_data.cache_time <= F,
                    last_update       |-> cached_data.last_update,
                    cache_time        |-> cached_data.cache_time,
                    current_value     |-> cached_data.current_value,
                    source            |-> cached_data.source],
                   rs, nid, FALSE, FALSE)
      ELSE Outcome([has_cache |-> FALSE], rs, nid, FALSE, FALSE)
    : cached_data \in get_cached_fear_greed_data(rs, t, up, StatusWindow) }

\* get_smart_fetcher that builds a new SmartDataFetcher on every call
get_smart_fetcher_rebuilds(instance, timeout) == timeout

\* get_smart_fetcher(cache_timeout_minutes): the window of the instance it
\* returns, which is also the one the global holds afterwards. instance is the
\* window of the instance the global holds, -1 for None
get_smart_fetcher(instance, timeout) ==
    IF instance = NullInt THEN timeout ELSE instance

-----------------------------------------------------------------------------
(* src/data/models.py, src/data/database.py: the users table *)

\* the columns class User maps. The table has one more column,
\* last_notification_sent (added by migrate_db.py), which the class does not map.
UserColumns == {"telegram_id", "language_code", "is_subscribed", "push_time", "timezone"}

\* the object select(User) builds from a row: the mapped columns, nothing else
LoadUser(row) == [c \in UserColumns |-> row[c]]

\* setattr on a loaded object; a name that is no mapped column becomes a plain
\* attribute of that one object
SetAttr(obj, k, v) == (k :> v) @@ obj

\* session.commit(): the row with the object's mapped columns written back
Flush(row, obj) == [c \in DOMAIN row |-> IF c \in UserColumns THEN obj[c] ELSE row[c]]

\* a read of the subscribed users that answers from memory when the store is down
get_subscribed_users_survives(us, up) ==
    LET ids == {u \in DOMAIN us : us[u].is_subscribed}
        RECURSIVE InOrder(_)
        InOrder(S) == IF S = {} THEN <<>>
                      ELSE LET m == CHOOSE x \in S : \A y \in S : x <= y
                           IN  <<LoadUser(us[m])>> \o InOrder(S \ {m})
    IN  [raised |-> FALSE, users |-> InOrder(ids)]

\* a read that returns every user of the table, subscribed or not
get_subscribed_users_all(us, up) ==
    IF ~up THEN [raised |-> TRUE, users |-> <<>>]
    ELSE LET RECURSIVE InOrder(_)
             InOrder(S) == IF S = {} THEN <<>>
                           ELSE LET m == CHOOSE x \in S : \A y \in S : x <= y
                                IN  <<LoadUser(us[m])>> \o InOrder(S \ {m})
         IN  [raised |-> FALSE, users |-> InOrder(DOMAIN us)]

\* get_subscribed_users: the subscribed users in table order; it raises when
\* the store is down
get_subscribed_users(us, up) ==
    IF ~up THEN [raised |-> TRUE, users |-> <<>>]
    ELSE LET ids == {u \in DOMAIN us : us[u].is_subscribed}
             RECURSIVE InOrder(_)
             InOrder(S) == IF S = {} THEN <<>>
                           ELSE LET m == CHOOSE x \in S : \A y \in S : x <= y
                                IN  <<LoadUser(us[m])>> \o InOrder(S \ {m})
         IN  [raised |-> FALSE, users |-> InOrder(ids)]

\* update_last_notification: loads the user, sets user.last_notification_sent
\* and commits
update_last_notification(us, up, telegram_id, timestamp) ==
    IF ~up THEN [raised |-> TRUE, users |-> us]
    ELSE IF telegram_id \notin DOMAIN us THEN [raised |-> FALSE, users |-> us]
    ELSE LET user == SetAttr(LoadUser(us[telegram_id]), "last_notification_sent", timestamp)
         IN  [raised |-> FALSE,
              users |-> [us EXCEPT ![telegram_id] = Flush(@, user)]]

-----------------------------------------------------------------------------
(* src/bot/scheduler.py: NotificationScheduler *)

\* config.DEFAULT_NOTIFICATION_TIME, config.DEFAULT_TIMEZONE
DEFAULT_NOTIFICATION_TIME == "09:00"
DEFAULT_TIMEZONE == "UTC"

\* ZoneInfo(name).utcoffset(): minutes east of UTC of the zones used here (none
\* of them has daylight saving time); any other name makes ZoneInfo raise
UtcOffset ==
    [z \in {"UTC", "Asia/Tokyo", "Pacific/Pago_Pago", "Pacific/Tongatapu"} |->
        CASE z = "UTC" -> 0
          [] z = "Asia/Tokyo" -> 540
          [] z = "Pacific/Pago_Pago" -> 0 - 660
          [] z = "Pacific/Tongatapu" -> 780]

\* datetime.hour, datetime.minute of a time
HourOf(t) == (t % MinutesPerDay) \div 60
MinuteOf(t) == t % 60

\* hour, minute = map(int, notification_time.split(':')); Raised for a string
\* that does not split into two integers
ParseHM(notification_time) ==
    CASE notification_time = "09:00" -> <<9, 0>>
      [] notification_time = "21:00" -> <<21, 0>>
      [] OTHER -> Raised

\* a wall clock that ignores the user's zone
UserCurrentTime_utc_only(user, current_time) == current_time

\* a wall clock that puts a user of an unknown zone into the first known one
UserCurrentTime_unknown_as_first(user, current_time) ==
    LET user_timezone == IF user.timezone = "" THEN DEFAULT_TIMEZONE ELSE user.timezone
    IN  IF user_timezone \in DOMAIN UtcOffset
        THEN current_time + UtcOffset[user_timezone]
        ELSE current_time + UtcOffset[Zones[1]]

\* the user's wall clock at current_time; an unknown zone is logged and the UTC
\* time is used
UserCurrentTime(user, current_time) ==
    LET user_timezone == IF user.timezone = "" THEN DEFAULT_TIMEZONE ELSE user.timezone
    IN  IF user_timezone \in DOMAIN UtcOffset
        THEN current_time + UtcOffset[user_timezone]
        ELSE current_time

\* user_current_time.hour == hour and user_current_time.minute == minute
TimeMatches(user, current_time) ==
    LET hm == ParseHM(IF user.push_time = "" THEN DEFAULT_NOTIFICATION_TIME
                      ELSE user.push_time)
        user_current_time == UserCurrentTime(user, current_time)
    IN  /\ hm # Raised
        /\ HourOf(user_current_time) = hm[1]
        /\ MinuteOf(user_current_time) = hm[2]

\* the run of _should_send_notification(user, current_time): the value it
\* returns and whether it ended in its outer except clause
ShouldSendRun(user, current_time) ==
    LET notification_time == IF user.push_time = "" THEN DEFAULT_NOTIFICATION_TIME
                             ELSE user.push_time
        user_timezone == IF user.timezone = "" THEN DEFAULT_TIMEZONE ELSE user.timezone
        tz_ok == user_timezone \in DOMAIN UtcOffset
    IN  IF ParseHM(notification_time) = Raised
        THEN [value |-> FALSE, raised |-> TRUE]
        ELSE IF TimeMatches(user, current_time)
        THEN IF "last_notification_sent" \notin DOMAIN user
             THEN \* user.last_notification_sent: AttributeError, caught at line 206
                  [value |-> FALSE, raised |-> TRUE]
             ELSE LET last_notification == user.last_notification_sent
                      \* with no user_tz bound the comparison falls back to UTC dates
                      last_date == IF tz_ok
                                   THEN DateOf(last_notification + UtcOffset[user_timezone])
                                   ELSE DateOf(last_notification)
                      current_date == IF tz_ok
                                      THEN DateOf(UserCurrentTime(user, current_time))
                                      ELSE DateOf(current_time)
                  IN  IF last_notification # NullInt /\ last_date >= current_date
                      THEN [value |-> FALSE, raised |-> FALSE]
                      ELSE [value |-> TRUE, raised |-> FALSE]
        ELSE [value |-> FALSE, raised |-> FALSE]

\* a predicate that fires on the time match alone
_should_send_notification_time_only(user, current_time) == TimeMatches(user, current_time)

\* NotificationScheduler._should_send_notification
_should_send_notification(user, current_time) == ShouldSendRun(user, current_time).value

\* the state one notification run threads through: the store, the users, the
\* sink's log, and per user the steps taken
Sending(rs, nid, lf, us, ob, steps) ==
    [rows |-> rs, nextId |-> nid, lastFetchAt |-> lf, users |-> us, outbox |-> ob,
     steps |-> steps]

\* a send path that records the notification whether or not the sink took it
_send_daily_notification_records_first(S, t, up, F, user, api, sink_ok, by) ==
    { IF o.result = None
      THEN [S EXCEPT !.rows = o.rows, !.nextId = o.nextId,
                     !.lastFetchAt = IF o.invoked /\ api \in Snapshots THEN t ELSE @,
                     !.steps = Append(@, <<user.telegram_id, "data">>)]
      ELSE [S EXCEPT !.rows = o.rows, !.nextId = o.nextId,
                     !.lastFetchAt = IF o.invoked /\ api \in Snapshots THEN t ELSE @,
                     !.users = update_last_notification(S.users, up, user.telegram_id, t).users,
                     !.outbox = IF sink_ok
                                THEN @ \cup {[to |-> user.telegram_id, at |-> t, by |-> by]}
                                ELSE @,
                     !.steps = @ \o << <<user.telegram_id, "data">>,
                                       <<user.telegram_id, "render">>,
                                       <<user.telegram_id, "record">>,
                                       <<user.telegram_id, "send">> >>]
    : o \in get_current_fear_greed_index(S.rows, S.nextId, t, up, F, FALSE, api) }

\* NotificationScheduler._send_daily_notification at time t: read the snapshot,
\* render, send, and after the send record the time; every exception is logged
\* and swallowed. by names the caller in the sink's log.
_send_daily_notification(S, t, up, F, user, api, sink_ok, by) ==
    { LET S1 == [S EXCEPT !.rows = o.rows, !.nextId = o.nextId,
                          !.lastFetchAt = IF o.invoked /\ api \in Snapshots THEN t ELSE @,
                          !.steps = Append(@, <<user.telegram_id, "data">>)]
          S2 == [S1 EXCEPT !.steps = @ \o << <<user.telegram_id, "render">>,
                                            <<user.telegram_id, "send">> >>]
      IN  IF o.result = None
          THEN S1
          ELSE IF ~sink_ok
          THEN S2
          ELSE [S2 EXCEPT
                  !.outbox = @ \cup {[to |-> user.telegram_id, at |-> t, by |-> by]},
                  !.users = update_last_notification(S.users, up, user.telegram_id, t).users,
                  !.steps = Append(@, <<user.telegram_id, "record">>)]
    : o \in get_current_fear_greed_index(S.rows, S.nextId, t, up, F, FALSE, api) }

\* the loop of _check_daily_notifications over the users it loaded
RECURSIVE ForEachUser(_, _, _, _, _, _, _)
ForEachUser(loaded, S, t, up, F, apis, sinks) ==
    IF loaded = <<>> THEN {S}
    ELSE LET user == Head(loaded)
             u == user.telegram_id
             S1 == [S EXCEPT !.steps = Append(@, <<u, "check">>)]
         IN  IF _should_send_notification(user, t)
             THEN UNION { ForEachUser(Tail(loaded), S2, t, up, F, apis, sinks)
                        : S2 \in _send_daily_notification(S1, t, up, F, user, apis[u],
                                                          sinks[u], "tick") }
             ELSE ForEachUser(Tail(loaded), S1, t, up, F, apis, sinks)

\* a run that sends something to every user whose push time has come,
\* with or without data
_check_daily_notifications_sends_anyway(S, t, up, F, apis, sinks) ==
    LET loaded == get_subscribed_users(S.users, up)
    IN  IF loaded.raised THEN {S}
        ELSE {[S EXCEPT !.outbox = @ \cup
                  {[to |-> loaded.users[i].telegram_id, at |-> t, by |-> "tick"]
                   : i \in {k \in DOMAIN loaded.users : TimeMatches(loaded.users[k], t)}}]}

\* NotificationScheduler._check_daily_notifications at time t; a store that is
\* down ends the run at get_subscribed_users
_check_daily_notifications(S, t, up, F, apis, sinks) ==
    LET loaded == get_subscribed_users(S.users, up)
    IN  IF loaded.raised THEN {S}
        ELSE ForEachUser(loaded.users, S, t, up, F, apis, sinks)

\* the loop of broadcast_message over the users it loaded: B carries the
\* sink, the two counters and the ids a send was attempted for, in order
RECURSIVE BroadcastLoop(_, _, _, _, _)
BroadcastLoop(loaded, B, t, language, sinks) ==
    IF loaded = <<>> THEN B
    ELSE LET user == Head(loaded)
             u == user.telegram_id
         IN  IF language # "" /\ user.language_code # language
             THEN BroadcastLoop(Tail(loaded), B, t, language, sinks)
             ELSE IF sinks[u]
             THEN BroadcastLoop(Tail(loaded),
                                [B EXCEPT !.outbox = @ \cup {[to |-> u, at |-> t,
                                                             by |-> "broadcast"]},
                                          !.attempts = Append(@, u),
                                          !.sent_count = @ + 1],
                                t, language, sinks)
             ELSE BroadcastLoop(Tail(loaded),
                                [B EXCEPT !.attempts = Append(@, u),
                                          !.failed_count = @ + 1],
                                t, language, sinks)

\* a broadcast that gives up at the first send that fails
broadcast_message_stops_at_failure(us, ob, t, up, language, sinks) ==
    LET loaded == get_subscribed_users(us, up)
        B0 == [users |-> us, outbox |-> ob, attempts |-> <<>>, sent_count |-> 0,
               failed_count |-> 0, raised |-> loaded.raised]
        upto == IF \E i \in DOMAIN loaded.users : ~sinks[loaded.users[i].telegram_id]
                THEN CHOOSE i \in DOMAIN loaded.users :
                         /\ ~sinks[loaded.users[i].telegram_id]
                         /\ \A j \in 1..(i - 1) : sinks[loaded.users[j].telegram_id]
                ELSE Len(loaded.users)
    IN  IF loaded.raised THEN B0
        ELSE BroadcastLoop(SubSeq(loaded.users, 1, upto), B0, t, language, sinks)

\* NotificationScheduler.broadcast_message(message, language) at time t:
\* sinks[u] tells whether send_message to user u succeeds. A store that is
\* down ends the call at get_subscribed_users, before the counters exist.
broadcast_message(us, ob, t, up, language, sinks) ==
    LET loaded == get_subscribed_users(us, up)
        B0 == [users |-> us, outbox |-> ob, attempts |-> <<>>, sent_count |-> 0,
               failed_count |-> 0, raised |-> loaded.raised]
    IN  IF loaded.raised THEN B0
        ELSE BroadcastLoop(loaded.users, B0, t, language, sinks)

\* trigger_manual_broadcast(message, admin_user_id) at time t in a process
\* whose config.ADMIN_USER_ID is admin (-1: None, not configured): the caller
\* is turned away only when an administrator is configured and is somebody
\* else; broadcast_message logs its own errors, so True follows whenever there
\* is a scheduler
trigger_manual_broadcast(us, ob, t, up, scheduler, admin, admin_user_id, sinks) ==
    IF admin # NullInt /\ admin_user_id # admin
    THEN [returned |-> FALSE, users |-> us, outbox |-> ob]
    ELSE IF scheduler = None
    THEN [returned |-> FALSE, users |-> us, outbox |-> ob]
    ELSE LET B == broadcast_message(us, ob, t, up, "", sinks)
         IN  [returned |-> TRUE, users |-> B.users, outbox |-> B.outbox]

\* trigger_test_notification(user_id): checks that there is a scheduler, that
\* the user exists and that data is there, then runs the send path for the
\* user, subscribed or not; returns True unless the scheduler, the user or the
\* data is missing
trigger_test_notification(S, t, up, F, scheduler, user_id, api1, api2, sink_ok) ==
    IF scheduler = None \/ ~up \/ user_id \notin DOMAIN S.users
    THEN {[state |-> S, returned |-> FALSE]}
    ELSE UNION {
           LET S1 == [S EXCEPT !.rows = o.rows, !.nextId = o.nextId,
                               !.lastFetchAt = IF o.invoked /\ api1 \in Snapshots THEN t ELSE @]
           IN  IF o.result = None
               THEN {[state |-> S1, returned |-> FALSE]}
               ELSE { [state |-> S2, returned |-> TRUE]
                    : S2 \in _send_daily_notification(S1, t, up, F, LoadUser(S.users[user_id]),
                                                      api2, sink_ok, "test") }
         : o \in get_current_fear_greed_index(S.rows, S.nextId, t, up, F, FALSE, api1) }

\* strftime('%Y-%m-%d %H:%M:%S'): the text of a time stamp
Strftime(t) == [text |-> <<DateOf(t), HourOf(t), MinuteOf(t)>>]

\* the entry check_notification_status builds for one loaded user. Building
\* user_info reads user.last_notification_sent; on an object without that
\* attribute the read raises and the entry is the one of the except clause
UserInfo(user, should_notify) ==
    IF "last_notification_sent" \notin DOMAIN user
    THEN [user_id |-> user.telegram_id, error |-> "AttributeError"]
    ELSE [user_id |-> user.telegram_id,
          push_time |-> IF user.push_time = "" THEN "09:00" ELSE user.push_time,
          timezone |-> IF user.timezone = "" THEN "UTC" ELSE user.timezone,
          last_notification |-> IF user.last_notification_sent # NullInt
                                THEN Strftime(user.last_notification_sent) ELSE None,
          should_notify_now |-> should_notify]

\* check_notification_status(): the scheduler's state, the subscribed users
\* and, with a scheduler, one entry per subscribed user
check_notification_status(us, up, t, scheduler) ==
    LET loaded == get_subscribed_users(us, up)
        status == [scheduler_running |-> IF scheduler # None THEN scheduler.running ELSE FALSE,
                   current_utc_time |-> Strftime(t),
                   subscribed_users_count |-> 0,
                   users_ready_for_notification |-> 0,
                   user_details |-> <<>>,
                   error |-> None]
    IN  IF loaded.raised
        THEN [status EXCEPT !.error = Raised]
        ELSE LET details == IF scheduler # None
                            THEN [i \in 1..Len(loaded.users) |->
                                    UserInfo(loaded.users[i],
                                             _should_send_notification(loaded.users[i], t))]
                            ELSE <<>>
                 ready == {i \in 1..Len(details) :
                             /\ "should_notify_now" \in DOMAIN details[i]
                             /\ details[i].should_notify_now}
             IN  [status EXCEPT !.subscribed_users_count = Len(loaded.users),
                                !.users_ready_for_notification = Cardinality(ready),
                                !.user_details = details]

-----------------------------------------------------------------------------
(* Actions *)

Idle == [op |-> "idle"]

\* a coroutine's frame: pc names the await it stands at
Frame(pc, force_refresh, data, existing, dto_date, result, saved) ==
    [pc |-> pc, force_refresh |-> force_refresh, data |-> data, existing |-> existing,
     dto_date |-> dto_date, result |-> result, saved |-> saved]

\* no call in progress
NoCall == Frame("idle", FALSE, None, NullInt, NullInt, None, "none")

\* the wall clock moves on between handlers
Advance(t) ==
    /\ t > now
    /\ now' = t
    /\ ret' = Idle
    /\ UNCHANGED <<cacheVars, notifyVars, raceVars, jobVars>>

\* one call of get_current_fear_greed_index (SmartDataFetcher.get_current_fear_greed_index
\* or force_refresh). Two writes of the store never carry the same clock reading:
\* a write is a commit, and the clock has moved on since the previous one.
GetCurrent(force_refresh, api) ==
    \E o \in get_current_fear_greed_index(rows, nextId, now, storeUp,
                                          cache_timeout_minutes, force_refresh, api) :
        /\ o.saved => \A r \in rows : r.created_at < now
        /\ rows' = o.rows
        /\ nextId' = o.nextId
        /\ lastFetchAt' = IF o.invoked /\ api \in Snapshots THEN now ELSE lastFetchAt
        /\ ret' = [op |-> "get_current", force_refresh |-> force_refresh, api |-> api,
                   result |-> o.result, invoked |-> o.invoked, saved |-> o.saved]
        /\ UNCHANGED <<now, cache_timeout_minutes, storeUp, notifyVars, raceVars, jobVars>>

\* the database goes away or comes back
StoreFlip ==
    /\ storeUp' = ~storeUp
    /\ ret' = Idle
    /\ UNCHANGED <<now, rows, nextId, cache_timeout_minutes, lastFetchAt, notifyVars, raceVars, jobVars>>

\* the ids of the jobs _setup_jobs adds to the AsyncIOScheduler
JobIds == {"daily_notification_check", "market_data_update", "health_check",
           "cleanup_old_data"}

\* the triggers of apscheduler
IntervalTrigger(minutes) == [trigger |-> "interval", minutes |-> minutes]
CronTrigger(hour, minute) == [trigger |-> "cron", hour |-> hour, minute |-> minute]

NOTIFICATION_CHECK_INTERVAL == 1
DATA_UPDATE_INTERVAL == 60

\* a job of the AsyncIOScheduler
Job(id, func, trigger) == [id |-> id, func |-> func, trigger |-> trigger]

\* AsyncIOScheduler.add_job(func, trigger, id, replace_existing=True): a job
\* whose id the scheduler holds already is replaced, any other is added
add_job(jobs, job) ==
    IF \E i \in 1..Len(jobs) : jobs[i].id = job.id
    THEN [i \in 1..Len(jobs) |-> IF jobs[i].id = job.id THEN job ELSE jobs[i]]
    ELSE Append(jobs, job)

\* _setup_jobs with the health check added under the id of the data update
_setup_jobs_reuses_id(jobs) ==
    LET j1 == add_job(jobs, Job("daily_notification_check", "_check_daily_notifications",
                                IntervalTrigger(NOTIFICATION_CHECK_INTERVAL)))
        j2 == add_job(j1, Job("market_data_update", "_update_market_data",
                              IntervalTrigger(DATA_UPDATE_INTERVAL)))
        j3 == add_job(j2, Job("market_data_update", "_health_check", IntervalTrigger(15)))
    IN  add_job(j3, Job("cleanup_old_data", "_cleanup_old_data", CronTrigger(2, 0)))

\* NotificationScheduler._setup_jobs
_setup_jobs(jobs) ==
    LET j1 == add_job(jobs, Job("daily_notification_check", "_check_daily_notifications",
                                IntervalTrigger(NOTIFICATION_CHECK_INTERVAL)))
        j2 == add_job(j1, Job("market_data_update", "_update_market_data",
                              IntervalTrigger(DATA_UPDATE_INTERVAL)))
        j3 == add_job(j2, Job("health_check", "_health_check", IntervalTrigger(15)))
    IN  add_job(j3, Job("cleanup_old_data", "_cleanup_old_data", CronTrigger(2, 0)))

\* NotificationScheduler(app): the n-th object constructed; its
\* AsyncIOScheduler holds no job and does not run
NotificationScheduler(n) == [id |-> n, running |-> FALSE, jobs |-> <<>>]

\* NotificationScheduler.start(): nothing if the AsyncIOScheduler is running,
\* else the jobs are set up and the AsyncIOScheduler is started
NotificationScheduler_start(self) ==
    IF self.running THEN self
    ELSE [self EXCEPT !.jobs = _setup_jobs(self.jobs), !.running = TRUE]

\* NotificationScheduler.stop(): shutdown() of the AsyncIOScheduler; on one
\* that does not run it raises, and the error is logged
NotificationScheduler_stop(self) == [self EXCEPT !.running = FALSE]

\* a NotificationScheduler after start(): its AsyncIOScheduler is running
SchedulerStarted == NotificationScheduler_start(NotificationScheduler(1))

\* the Application that ApplicationBuilder builds, handlers added
Application == [handlers |-> TRUE]

\* the state the scheduler module is in once setup_scheduler(app) has
\* returned: the global holds a started NotificationScheduler, no job runs yet
SchedulerSetUp ==
    /\ bot = [app |-> Application, scheduler |-> SchedulerStarted, is_running |-> TRUE]
    /\ _scheduler_instance = SchedulerStarted
    /\ schedulers = <<>>
    /\ instances = [j \in JobIds |-> {}]

Init ==
    /\ now = StartTime
    /\ rows = {}
    /\ nextId = 1
    /\ cache_timeout_minutes \in FreshnessWindows
    /\ storeUp = TRUE
    /\ lastFetchAt = NullInt
    /\ users = [u \in UserIds |->
                  [telegram_id |-> u, language_code |-> LanguageOf(u), is_subscribed |-> TRUE,
                   push_time |-> DEFAULT_NOTIFICATION_TIME, timezone |-> Zones[u],
                   last_notification_sent |-> NullInt]]
    /\ outbox = {}
    /\ matchLog = [u \in UserIds |-> {}]
    /\ testRuns = 0
    /\ calls = [c \in Coroutines |-> NoCall]
    /\ SchedulerSetUp
    /\ ret = Idle

Next ==
    \/ \E t \in Times : Advance(t)
    \/ \E f \in BOOLEAN, api \in AdapterOutcomes : GetCurrent(f, api)

\* the cache service over a store that answers
Spec == Init /\ [][Next]_vars

NextFault ==
    \/ Next
    \/ StoreFlip

\* the cache service over a store that may stop answering
SpecFault == Init /\ [][NextFault]_vars

\* one call of get_cache_status (SmartDataFetcher.get_cache_info,
\* get_data_cache_status)
CacheStatus(api) ==
    \E o \in get_cache_status(rows, nextId, now, storeUp, cache_timeout_minutes, api) :
        /\ o.saved => \A r \in rows : r.created_at < now
        /\ rows' = o.rows
        /\ nextId' = o.nextId
        /\ lastFetchAt' = IF o.invoked /\ api \in Snapshots THEN now ELSE lastFetchAt
        /\ ret' = [op |-> "get_cache_status", api |-> api, result |-> o.result,
                   invoked |-> o.invoked, saved |-> o.saved]
        /\ UNCHANGED <<now, cache_timeout_minutes, storeUp, notifyVars, raceVars, jobVars>>

NextStatus ==
    \/ NextFault
    \/ \E api \in AdapterOutcomes : CacheStatus(api)

\* the cache service and its status query over a store that may stop answering
SpecStatus == Init /\ [][NextStatus]_vars

\* one get_current_fear_greed_index() of the cache service with the fetcher
\* behind it: _fetch_fresh_data opens a FearGreedDataFetcher (session stands
\* for whether __aenter__ succeeds) and the providers answer its requests with
\* responses (CNN, one per attempt) and backup (Alternative.me)
FetchCurrent(force_refresh, session, responses, delays, backup) ==
    LET fetched == IF session
                   THEN FearGreedDataFetcher_get_current_fear_greed_index(responses, delays,
                                                                          backup)
                   ELSE FetchStep(Raised, << >>)
    IN  \E o \in get_current_fear_greed_index(rows, nextId, now, storeUp,
                                              cache_timeout_minutes, force_refresh,
                                              fetched.result) :
            /\ o.saved => \A r \in rows : r.created_at < now
            /\ rows' = o.rows
            /\ nextId' = o.nextId
            /\ lastFetchAt' = IF o.invoked /\ Truthy(fetched.result) /\ fetched.result # Raised
                              THEN now ELSE lastFetchAt
            /\ ret' = [op |-> "fetch_current", force_refresh |-> force_refresh,
                       api |-> IF o.invoked THEN fetched.result ELSE None,
                       trace |-> IF o.invoked THEN fetched.trace ELSE << >>,
                       result |-> o.result, invoked |-> o.invoked, saved |-> o.saved]
            /\ UNCHANGED <<now, cache_timeout_minutes, storeUp, notifyVars, raceVars, jobVars>>

\* the first call after start-up, over every way the two providers may answer
NextFetch ==
    /\ ret = Idle
    /\ \E f, session \in BOOLEAN, responses \in [1..MAX_RETRIES -> CnnResponses],
          delays \in [1..(MAX_RETRIES - 1) -> Delays], backup \in BackupResponses :
           FetchCurrent(f, session, responses, delays, backup)

\* the cache service with the Source Adapter's requests and sleeps in view
SpecFetch == Init /\ [][NextFetch]_vars

\* the users whose wall clock reads their push time at time t
Matching(us, t) ==
    {u \in DOMAIN us : us[u].is_subscribed
                       /\ TimeMatches(LoadUser(us[u]), t)}

\* the notification-check job fires: one run of _check_daily_notifications at
\* the current minute. apis[u] is what the adapter answers and sinks[u] whether
\* the delivery sink takes the message, should the run get that far for user u.
Tick(apis, sinks) ==
    \E S \in _check_daily_notifications(
                 Sending(rows, nextId, lastFetchAt, users, outbox, <<>>),
                 now, storeUp, cache_timeout_minutes, apis, sinks) :
        /\ S.rows # rows => \A r \in rows : r.created_at < now
        /\ rows' = S.rows
        /\ nextId' = S.nextId
        /\ lastFetchAt' = S.lastFetchAt
        /\ users' = S.users
        /\ outbox' = S.outbox
        /\ matchLog' = [u \in UserIds |->
                          IF storeUp /\ u \in Matching(users, now)
                          THEN matchLog[u] \cup {now} ELSE matchLog[u]]
        /\ ret' = [op |-> "tick", apis |-> apis, sinks |-> sinks, steps |-> S.steps,
                   matched |-> IF storeUp THEN Matching(users, now) ELSE {},
                   eligible |-> {u \in UserIds : storeUp /\ users[u].is_subscribed
                                   /\ _should_send_notification(LoadUser(users[u]), now)},
                   raised |-> {u \in UserIds : storeUp /\ users[u].is_subscribed
                                   /\ ShouldSendRun(LoadUser(users[u]), now).raised}]
        /\ UNCHANGED <<now, cache_timeout_minutes, storeUp, testRuns, raceVars, jobVars>>

\* an admin runs trigger_test_notification(user_id)
TestNotification(user_id, api1, api2, sink_ok) ==
    /\ testRuns < MaxTestSends
    /\ testRuns' = testRuns + 1
    /\ \E o \in trigger_test_notification(
                    Sending(rows, nextId, lastFetchAt, users, outbox, <<>>),
                    now, storeUp, cache_timeout_minutes, _scheduler_instance, user_id,
                    api1, api2, sink_ok) :
        /\ o.state.rows # rows => \A r \in rows : r.created_at < now
        /\ rows' = o.state.rows
        /\ nextId' = o.state.nextId
        /\ lastFetchAt' = o.state.lastFetchAt
        /\ users' = o.state.users
        /\ outbox' = o.state.outbox
        /\ ret' = [op |-> "test", user_id |-> user_id, sink_ok |-> sink_ok,
                   steps |-> o.state.steps, returned |-> o.returned]
        /\ UNCHANGED <<now, cache_timeout_minutes, storeUp, matchLog, raceVars, jobVars>>

\* UserRepository.update_user_push_time(telegram_id, push_time)
update_user_push_time(telegram_id, push_time) ==
    /\ storeUp
    /\ telegram_id \in DOMAIN users
    /\ users[telegram_id].push_time # push_time
    /\ users' = [users EXCEPT ![telegram_id] =
                    Flush(@, [LoadUser(@) EXCEPT !.push_time = push_time])]
    /\ ret' = [op |-> "update_user_push_time", user_id |-> telegram_id]
    /\ UNCHANGED <<now, cacheVars, outbox, matchLog, testRuns, raceVars, jobVars>>

\* UserRepository.update_user_subscription(telegram_id, is_subscribed)
update_user_subscription(telegram_id, is_subscribed) ==
    /\ storeUp
    /\ telegram_id \in DOMAIN users
    /\ users[telegram_id].is_subscribed # is_subscribed
    /\ users' = [users EXCEPT ![telegram_id] =
                    Flush(@, [LoadUser(@) EXCEPT !.is_subscribed = is_subscribed])]
    /\ ret' = [op |-> "update_user_subscription", user_id |-> telegram_id]
    /\ UNCHANGED <<now, cacheVars, outbox, matchLog, testRuns, raceVars, jobVars>>

\* the adapter's answers in the notification runs
NotifyOutcomes == {None, CHOOSE d \in Snapshots : d.current_value = 40}

NextNotify ==
    \/ \E t \in NotifyTimes : Advance(t)
    \/ \E api \in NotifyOutcomes, sink_ok \in BOOLEAN :
           Tick([u \in UserIds |-> api], [u \in UserIds |-> sink_ok])
    \/ \E u \in UserIds, api1, api2 \in NotifyOutcomes, sink_ok \in BOOLEAN :
           TestNotification(u, api1, api2, sink_ok)
    \/ \E u \in UserIds, pt \in PushTimes : update_user_push_time(u, pt)
    \/ \E u \in UserIds, b \in BOOLEAN : update_user_subscription(u, b)

\* the scheduler's notification job, the admin's test trigger and the users'
\* settings over a store that answers
SpecNotify == Init /\ [][NextNotify]_vars

\* a users table whose users live in any of the zones
InitZones ==
    /\ now = StartTime
    /\ rows = {}
    /\ nextId = 1
    /\ cache_timeout_minutes \in FreshnessWindows
    /\ storeUp = TRUE
    /\ lastFetchAt = NullInt
    /\ \E zone \in [UserIds -> {Zones[i] : i \in 1..Len(Zones)}] :
           users = [u \in UserIds |->
                      [telegram_id |-> u, language_code |-> LanguageOf(u), is_subscribed |-> TRUE,
                       push_time |-> DEFAULT_NOTIFICATION_TIME, timezone |-> zone[u],
                       last_notification_sent |-> NullInt]]
    /\ outbox = {}
    /\ matchLog = [u \in UserIds |-> {}]
    /\ testRuns = 0
    /\ calls = [c \in Coroutines |-> NoCall]
    /\ SchedulerSetUp
    /\ ret = Idle

NextZones ==
    \/ \E t \in ZoneTimes : Advance(t)
    \/ \E api \in NotifyOutcomes, sinks \in [UserIds -> BOOLEAN] :
           Tick([u \in UserIds |-> api], sinks)
    \/ \E u \in UserIds, pt \in PushTimes : update_user_push_time(u, pt)

\* the notification job over users of any zones, known to ZoneInfo or not
SpecZones == InitZones /\ [][NextZones]_vars

-----------------------------------------------------------------------------
(* get_current_fear_greed_index step by step: coroutines on one event loop
   give way to each other at every await *)

\* the SELECT of save_fear_greed_data: the rows whose date lies in today
SelectToday(rs, t) == {r \in rs : DateOf(r.date) = DateOf(t)}

\* the commit of save_fear_greed_data at time t, for what its SELECT found:
\* UPDATE of the row loaded (by primary key), or INSERT of a new row
CommitSave(rs, nid, t, dto, existing) ==
    IF existing # NullInt
    THEN Saved(FALSE,
               { IF r.id = existing
                 THEN [r EXCEPT !.current_value = dto.current_value,
                                !.rating = dto.rating,
                                !.previous_close = dto.previous_close,
                                !.source = dto.source,
                                !.created_at = t]
                 ELSE r : r \in rs },
               nid)
    ELSE Saved(FALSE, rs \cup {NewRow(nid, t, dto)}, nid + 1)

\* the call starts: with force_refresh the cache is skipped, otherwise the
\* cache read is awaited and a hit returns
CallStart(c, force_refresh) ==
    /\ calls[c].pc = "idle"
    /\ \E cached_data \in IF force_refresh THEN {None}
                          ELSE get_cached_fear_greed_data(rows, now, storeUp,
                                                          cache_timeout_minutes) :
           calls' = [calls EXCEPT ![c] =
                       IF cached_data # None
                       THEN Frame("done", force_refresh, None, NullInt, NullInt,
                                  _format_cached_data(cached_data), "none")
                       ELSE Frame("fetch", force_refresh, None, NullInt, NullInt, None, "none")]
    /\ ret' = [op |-> "call_start", c |-> c]
    /\ UNCHANGED <<now, cacheVars, notifyVars, jobVars>>

\* await self._fetch_fresh_data() comes back; without data the fallback read
\* is awaited and the call returns
AdapterAnswers(c, api) ==
    /\ calls[c].pc = "fetch"
    /\ LET fresh_data == _fetch_fresh_data(api)
       IN  IF fresh_data # None /\ fresh_data # Raised
           THEN calls' = [calls EXCEPT ![c].pc = "select", ![c].data = fresh_data]
           ELSE \E fallback_data \in get_cached_fear_greed_data(rows, now, storeUp, StaleWindow) :
                    calls' = [calls EXCEPT
                                ![c].pc = "done",
                                ![c].result =
                                    IF fallback_data = None \/ fresh_data = Raised THEN None
                                    ELSE _format_cached_data(("is_stale" :> TRUE) @@ fallback_data)]
    /\ lastFetchAt' = IF api \in Snapshots THEN now ELSE lastFetchAt
    /\ ret' = [op |-> "adapter_answers", c |-> c]
    /\ UNCHANGED <<now, rows, nextId, cache_timeout_minutes, storeUp, notifyVars, jobVars>>

\* save_fear_greed_data_to_cache builds the DTO and save_fear_greed_data awaits
\* its SELECT; scalar_one_or_none() raises on more than one row, the save is
\* given up and the fresh data returned
SaveSelect(c) ==
    /\ calls[c].pc = "select"
    /\ LET today == SelectToday(rows, now)
       IN  IF Cardinality(today) > 1
           THEN calls' = [calls EXCEPT ![c].pc = "done", ![c].saved = "failed",
                                       ![c].data = None,
                                       ![c].result = _format_api_data(calls[c].data)]
           ELSE calls' = [calls EXCEPT
                            ![c].pc = "commit",
                            ![c].dto_date = now,
                            ![c].existing = IF today = {} THEN NullInt
                                            ELSE (CHOOSE r \in today : TRUE).id]
    /\ ret' = [op |-> "save_select", c |-> c]
    /\ UNCHANGED <<now, cacheVars, notifyVars, jobVars>>

\* await session.commit() of the save, then the call returns the fresh data
SaveCommit(c) ==
    /\ calls[c].pc = "commit"
    /\ LET sv == CommitSave(rows, nextId, now,
                            FearGreedDataDTO(calls[c].data, calls[c].dto_date),
                            calls[c].existing)
       IN  /\ rows' = sv.rows
           /\ nextId' = sv.nextId
    /\ calls' = [calls EXCEPT ![c].pc = "done", ![c].saved = "ok",
                              ![c].data = None, ![c].existing = NullInt,
                              ![c].dto_date = NullInt,
                              ![c].result = _format_api_data(calls[c].data)]
    /\ ret' = [op |-> "save_commit", c |-> c]
    /\ UNCHANGED <<now, cache_timeout_minutes, storeUp, lastFetchAt, notifyVars, jobVars>>

\* the caller takes the result
CallReturn(c) ==
    /\ calls[c].pc = "done"
    /\ calls' = [calls EXCEPT ![c] = NoCall]
    /\ ret' = [op |-> "call_return", c |-> c, saved |-> calls[c].saved]
    /\ UNCHANGED <<now, cacheVars, notifyVars, jobVars>>

NextRace ==
    \/ \E t \in RaceTimes : Advance(t)
    \/ \E c \in Coroutines, f \in BOOLEAN : CallStart(c, f)
    \/ \E c \in Coroutines, api \in Snapshots \cup {None} : AdapterAnswers(c, api)
    \/ \E c \in Coroutines : SaveSelect(c)
    \/ \E c \in Coroutines : SaveCommit(c)
    \/ \E c \in Coroutines : CallReturn(c)

\* coroutines of get_current_fear_greed_index interleaved at their awaits, over
\* a store that answers
SpecRace == Init /\ [][NextRace]_vars

-----------------------------------------------------------------------------
(* src/bot/scheduler.py: the jobs of the AsyncIOScheduler *)

\* config.CACHE_CLEANUP_DAYS, by default
CACHE_CLEANUP_DAYS == 30

\* a cleanup that also deletes the row dated exactly at the cutoff
cleanup_old_data_inclusive(rs, t, up, days_to_keep) ==
    IF ~up THEN [raised |-> TRUE, rows |-> rs, rowcount |-> 0]
    ELSE LET old == {r \in rs : r.date <= t - days_to_keep * MinutesPerDay}
         IN  [raised |-> FALSE, rows |-> rs \ old, rowcount |-> Cardinality(old)]

\* FearGreedRepository.cleanup_old_data at time t: DELETE ... WHERE date <
\* utcnow() - days_to_keep days, commit, and the number of rows deleted; the
\* session raises when the store is down
cleanup_old_data(rs, t, up, days_to_keep) ==
    IF ~up THEN [raised |-> TRUE, rows |-> rs, rowcount |-> 0]
    ELSE LET cutoff_date == t - days_to_keep * MinutesPerDay
             old == {r \in rs : r.date < cutoff_date}
         IN  [raised |-> FALSE, rows |-> rs \ old, rowcount |-> Cardinality(old)]

\* max_instances of a job: 1 for the three interval jobs (scheduler.py:68, 80,
\* 92) and APScheduler's default of 1 for the cleanup job
max_instances(job) == 1

\* a run of a job's function: launched by the AsyncIOScheduler on a tick of
\* the job's trigger, or awaited directly by force_data_update()
ScheduledRun == [by |-> "scheduler"]
ForcedRun == [by |-> "force_data_update"]

\* the clock readings of the runs that follow the jobs
MaxJobPoints == 2
JobTimes == {StartTime + Offsets[i] : i \in 1..MaxJobPoints}

\* what the function of a job does to the store, the users and the sink when
\* the adapter answers api and the sink takes messages or not
JobBody(job, api, sink_ok) ==
    LET S == Sending(rows, nextId, lastFetchAt, users, outbox, <<>>)
        Called(force_refresh) ==
            { [S EXCEPT !.rows = o.rows, !.nextId = o.nextId,
                        !.lastFetchAt = IF o.invoked /\ api \in Snapshots THEN now ELSE @]
            : o \in get_current_fear_greed_index(rows, nextId, now, storeUp,
                                                 cache_timeout_minutes, force_refresh, api) }
    IN  CASE job = "daily_notification_check" ->
                 _check_daily_notifications(S, now, storeUp, cache_timeout_minutes,
                                            [u \in UserIds |-> api],
                                            [u \in UserIds |-> sink_ok])
          [] job = "market_data_update" -> Called(TRUE)
          [] job = "health_check" -> Called(FALSE)
          [] job = "cleanup_old_data" ->
                 {[S EXCEPT !.rows = cleanup_old_data(rows, now, storeUp,
                                                      CACHE_CLEANUP_DAYS).rows]}

\* the trigger of a job fires: the AsyncIOScheduler launches a run of the
\* job's function unless max_instances runs it launched are still executing,
\* and then the tick is skipped
JobTick(job) ==
    /\ _scheduler_instance # None
    /\ LET executing == {r \in instances[job] : r = ScheduledRun}
       IN  IF Cardinality(executing) >= max_instances(job)
           THEN /\ ret' = [op |-> "job_tick", job |-> job, outcome |-> "skipped"]
                /\ UNCHANGED instances
           ELSE /\ ret' = [op |-> "job_tick", job |-> job, outcome |-> "started"]
                /\ instances' = [instances EXCEPT ![job] = @ \cup {ScheduledRun}]
    /\ UNCHANGED <<now, cacheVars, notifyVars, raceVars, bot, _scheduler_instance, schedulers>>

\* force_data_update(): awaits scheduler._update_market_data() itself; it
\* returns False when there is no scheduler. One such call is in flight at a
\* time.
ForceDataUpdate ==
    /\ ForcedRun \notin instances["market_data_update"]
    /\ IF _scheduler_instance = None
       THEN /\ ret' = [op |-> "force_data_update", returned |-> FALSE]
            /\ UNCHANGED instances
       ELSE /\ ret' = [op |-> "force_data_update", returned |-> TRUE]
            /\ instances' = [instances EXCEPT !["market_data_update"] = @ \cup {ForcedRun}]
    /\ UNCHANGED <<now, cacheVars, notifyVars, raceVars, bot, _scheduler_instance, schedulers>>

\* a run of a job's function comes to its end, having done its work
JobReturn(job, run, api, sink_ok) ==
    /\ run \in instances[job]
    /\ \E S \in JobBody(job, api, sink_ok) :
           /\ S.rows # rows => \A r \in rows : r.created_at < now
           /\ rows' = S.rows
           /\ nextId' = S.nextId
           /\ lastFetchAt' = S.lastFetchAt
           /\ users' = S.users
           /\ outbox' = S.outbox
           /\ ret' = [op |-> "job_return", job |-> job, by |-> run.by, steps |-> S.steps]
    /\ instances' = [instances EXCEPT ![job] = @ \ {run}]
    /\ UNCHANGED <<now, cache_timeout_minutes, storeUp, matchLog, testRuns, raceVars,
                   bot, _scheduler_instance, schedulers>>

\* the languages a broadcast may be restricted to; "" stands for None and the
\* empty string, both false in Python: no restriction
BroadcastLanguages == {"", "zh", "en", "fr"}

\* one call of broadcast_message(message, language)
Broadcast(language, sinks) ==
    LET B == broadcast_message(users, outbox, now, storeUp, language, sinks)
    IN  /\ users' = B.users
        /\ outbox' = B.outbox
        /\ ret' = [op |-> "broadcast", language |-> language, sinks |-> sinks,
                   attempts |-> B.attempts, sent_count |-> B.sent_count,
                   failed_count |-> B.failed_count, raised |-> B.raised]
        /\ UNCHANGED <<now, cacheVars, matchLog, testRuns, raceVars, jobVars>>

NextBroadcast ==
    \/ \E t \in JobTimes : Advance(t)
    \/ \E language \in BroadcastLanguages, sinks \in [UserIds -> BOOLEAN] :
           Broadcast(language, sinks)
    \/ \E u \in UserIds, b \in BOOLEAN : update_user_subscription(u, b)

\* broadcasts while users subscribe and unsubscribe, over a store that answers
SpecBroadcast == Init /\ [][NextBroadcast]_vars

NextSubscribed ==
    \/ \E t \in JobTimes : Advance(t)
    \/ \E api \in NotifyOutcomes, sinks \in [UserIds -> BOOLEAN] :
           Tick([u \in UserIds |-> api], sinks)
    \/ \E language \in BroadcastLanguages, sinks \in [UserIds -> BOOLEAN] :
           Broadcast(language, sinks)
    \/ \E u \in UserIds, b \in BOOLEAN : update_user_subscription(u, b)

\* notification runs and broadcasts while users subscribe and unsubscribe
SpecSubscribed == Init /\ [][NextSubscribed]_vars

\* the clock readings of the runs that follow the cleanup job: 23:00 and 23:10
\* of day 0, the same and 23:20 thirty days later, then 23:00 of the next day
CleanupTimes == <<1380, 1390, 44580, 44590, 44600, 46020>>
MaxCleanupPoints == 5

\* NotificationScheduler._cleanup_old_data: one run of the cleanup job's
\* function; it logs the number of rows deleted, or the error
CleanupRun ==
    LET done == cleanup_old_data(rows, now, storeUp, CACHE_CLEANUP_DAYS)
    IN  /\ rows' = done.rows
        /\ ret' = [op |-> "cleanup", raised |-> done.raised,
                   cleaned_count |-> IF done.raised THEN NullInt ELSE done.rowcount]
        /\ UNCHANGED <<now, nextId, cache_timeout_minutes, storeUp, lastFetchAt,
                       notifyVars, raceVars, jobVars>>

NextCleanup ==
    \/ \E i \in 1..MaxCleanupPoints : Advance(CleanupTimes[i])
    \/ \E f \in BOOLEAN, api \in AdapterOutcomes : GetCurrent(f, api)
    \/ CleanupRun

\* the cache service and the cleanup job over a month
SpecCleanup == Init /\ [][NextCleanup]_vars

\* the horizons CACHE_CLEANUP_DAYS may be set to in the environment
RetentionDays == {1, 2, 30}

\* the clock readings of the runs about retention: 00:10 and 23:10 of day 1,
\* then 02:00 of the days that follow
RetentionTimes == <<1450, 2830, 3000, 4440, 5880>>
MaxRetentionPoints == 4

\* one run of the cleanup job's function in a process whose
\* CACHE_CLEANUP_DAYS is days_to_keep
CleanupKeeping(days_to_keep) ==
    LET done == cleanup_old_data(rows, now, storeUp, days_to_keep)
    IN  /\ rows' = done.rows
        /\ ret' = [op |-> "cleanup", days_to_keep |-> days_to_keep, raised |-> done.raised,
                   cleaned_count |-> IF done.raised THEN NullInt ELSE done.rowcount]
        /\ UNCHANGED <<now, nextId, cache_timeout_minutes, storeUp, lastFetchAt,
                       notifyVars, raceVars, jobVars>>

NextRetention ==
    \/ \E i \in 1..MaxRetentionPoints : Advance(RetentionTimes[i])
    \/ \E f \in BOOLEAN, api \in AdapterOutcomes : GetCurrent(f, api)
    \/ \E days_to_keep \in RetentionDays : CleanupKeeping(days_to_keep)

\* the cache service and the cleanup job under any retention horizon
SpecRetention == Init /\ [][NextRetention]_vars

NextJobs ==
    \/ \E t \in JobTimes : Advance(t)
    \/ \E job \in JobIds : JobTick(job)
    \/ ForceDataUpdate
    \/ \E job \in JobIds, run \in {ScheduledRun, ForcedRun}, api \in NotifyOutcomes,
          sink_ok \in BOOLEAN : JobReturn(job, run, api, sink_ok)

\* the four jobs and the operator's forced update over a started scheduler
SpecJobs == Init /\ [][NextJobs]_vars

NextOutage ==
    \/ NextJobs
    \/ StoreFlip

\* the jobs over a store that may stop answering
SpecOutage == Init /\ [][NextOutage]_vars

\* an admin asks for the notification status (handlers.py calls
\* check_notification_status)
NotificationStatus ==
    /\ ret' = [op |-> "check_notification_status",
               status |-> check_notification_status(users, storeUp, now,
                                                    _scheduler_instance)]
    /\ UNCHANGED <<now, cacheVars, notifyVars, raceVars, jobVars>>

NextDebug ==
    \/ \E t \in NotifyTimes : Advance(t)
    \/ \E api \in NotifyOutcomes, sink_ok \in BOOLEAN :
           Tick([u \in UserIds |-> api], [u \in UserIds |-> sink_ok])
    \/ \E u \in UserIds, pt \in PushTimes : update_user_push_time(u, pt)
    \/ \E u \in UserIds, b \in BOOLEAN : update_user_subscription(u, b)
    \/ StoreFlip
    \/ NotificationStatus

\* the notification job, the users' settings and the admin's status query
SpecDebug == Init /\ [][NextDebug]_vars

-----------------------------------------------------------------------------
(* src/main.py: the process, from GreedBot() to stop() *)

\* the module globals right after import: bot = GreedBot(), no scheduler
InitBoot ==
    /\ now = StartTime
    /\ rows = {}
    /\ nextId = 1
    /\ cache_timeout_minutes \in FreshnessWindows
    /\ storeUp = TRUE
    /\ lastFetchAt = NullInt
    /\ users = [u \in UserIds |->
                  [telegram_id |-> u, language_code |-> LanguageOf(u), is_subscribed |-> TRUE,
                   push_time |-> DEFAULT_NOTIFICATION_TIME, timezone |-> Zones[u],
                   last_notification_sent |-> NullInt]]
    /\ outbox = {}
    /\ matchLog = [u \in UserIds |-> {}]
    /\ testRuns = 0
    /\ calls = [c \in Coroutines |-> NoCall]
    /\ bot = [app |-> None, scheduler |-> None, is_running |-> FALSE]
    /\ _scheduler_instance = None
    /\ schedulers = <<>>
    /\ instances = [j \in JobIds |-> {}]
    /\ ret = Idle

\* GreedBot.initialize(): the database, the data fetcher, the application and
\* its handlers. The call of setup_scheduler(self.app) is commented out:
\* self.scheduler and the module's _scheduler_instance stay None
GreedBot_initialize ==
    /\ bot.app = None
    /\ bot' = [bot EXCEPT !.app = Application]
    /\ ret' = [op |-> "initialize"]
    /\ UNCHANGED <<now, cacheVars, notifyVars, raceVars, _scheduler_instance, schedulers, instances>>

\* GreedBot.start() up to the point where run_polling / run_webhook serves
\* updates. The start of self.scheduler is commented out
GreedBot_start ==
    /\ bot.app # None
    /\ ~bot.is_running
    /\ ret # [op |-> "stop"]
    /\ bot' = [bot EXCEPT !.is_running = TRUE]
    /\ ret' = [op |-> "start"]
    /\ UNCHANGED <<now, cacheVars, notifyVars, raceVars, _scheduler_instance, schedulers, instances>>

\* GreedBot.stop(), from the finally clause of main()
GreedBot_stop ==
    /\ bot.is_running
    /\ bot' = [bot EXCEPT !.is_running = FALSE]
    /\ ret' = [op |-> "stop"]
    /\ UNCHANGED <<now, cacheVars, notifyVars, raceVars, _scheduler_instance, schedulers, instances>>

\* the clock reaches t, one interval or more later. The AsyncIOScheduler of a
\* started NotificationScheduler submits every job that has no run executing;
\* without a scheduler there is nothing that fires
IntervalElapses(t) ==
    LET fired == IF _scheduler_instance = None \/ ~_scheduler_instance.running
                 THEN {}
                 ELSE {job \in JobIds :
                         Cardinality({r \in instances[job] : r = ScheduledRun})
                           < max_instances(job)}
    IN  /\ t > now
        /\ now' = t
        /\ instances' = [job \in JobIds |->
                           IF job \in fired THEN instances[job] \cup {ScheduledRun}
                           ELSE instances[job]]
        /\ ret' = [op |-> "interval", fired |-> fired]
        /\ UNCHANGED <<cacheVars, notifyVars, raceVars, bot, _scheduler_instance, schedulers>>

\* the process: initialize(), start(), then the handlers serve updates while
\* the clock runs, until stop()
NextBoot ==
    \/ GreedBot_initialize
    \/ GreedBot_start
    \/ GreedBot_stop
    \/ bot.is_running /\ \E t \in Times : IntervalElapses(t)
    \/ bot.is_running /\ \E f \in BOOLEAN, api \in AdapterOutcomes : GetCurrent(f, api)
    \/ bot.is_running /\ NotificationStatus
    \/ bot.is_running /\ ForceDataUpdate

SpecBoot == InitBoot /\ [][NextBoot]_vars

-----------------------------------------------------------------------------
(* src/bot/scheduler.py: setup_scheduler, get_scheduler, shutdown_scheduler *)

\* NotificationScheduler objects constructed in one process
MaxSchedulers == 2

\* the NotificationScheduler objects there are
Objects ==
    {schedulers[i] : i \in 1..Len(schedulers)}
      \cup (IF _scheduler_instance = None THEN {} ELSE {_scheduler_instance})

\* get_scheduler()
get_scheduler == _scheduler_instance

\* setup_scheduler(app): a new NotificationScheduler is bound to the global
\* and started; its __init__ asks get_smart_fetcher(cache_timeout_minutes=60)
\* for its data fetcher. The object the global held before is not stopped
SetupScheduler ==
    /\ Cardinality(Objects) < MaxSchedulers
    /\ _scheduler_instance' =
           NotificationScheduler_start(NotificationScheduler(Cardinality(Objects) + 1))
    /\ schedulers' = IF _scheduler_instance = None THEN schedulers
                     ELSE Append(schedulers, _scheduler_instance)
    /\ cache_timeout_minutes' = get_smart_fetcher(cache_timeout_minutes, 60)
    /\ ret' = [op |-> "setup_scheduler", returned |-> _scheduler_instance'.id,
               requested |-> 60]
    /\ UNCHANGED <<now, rows, nextId, storeUp, lastFetchAt, notifyVars, raceVars, bot,
                   instances>>

\* shutdown_scheduler(): stops the object the global holds, if any, and sets
\* the global to None
ShutdownScheduler ==
    /\ IF _scheduler_instance # None
       THEN /\ schedulers' = Append(schedulers, NotificationScheduler_stop(_scheduler_instance))
            /\ _scheduler_instance' = None
       ELSE UNCHANGED <<_scheduler_instance, schedulers>>
    /\ ret' = [op |-> "shutdown_scheduler"]
    /\ UNCHANGED <<now, cacheVars, notifyVars, raceVars, bot, instances>>

\* get_scheduler().start(): start() called on the scheduler in use
StartAgain ==
    /\ get_scheduler # None
    /\ _scheduler_instance' = NotificationScheduler_start(get_scheduler)
    /\ ret' = [op |-> "start", scheduler |-> get_scheduler.id]
    /\ UNCHANGED <<now, cacheVars, notifyVars, raceVars, bot, schedulers, instances>>

\* a run the AsyncIOScheduler of object id launched
ScheduledRunOf(id) == [by |-> "scheduler", scheduler |-> id]

\* the trigger of a job of a running AsyncIOScheduler fires at the current
\* minute: the run is launched unless max_instances runs this scheduler
\* launched are still executing
Fire(o, job) ==
    /\ o \in Objects
    /\ o.running
    /\ \E i \in 1..Len(o.jobs) : o.jobs[i].id = job
    /\ LET executing == {r \in instances[job] : r = ScheduledRunOf(o.id)}
       IN  IF Cardinality(executing) >= max_instances(job)
           THEN /\ ret' = [op |-> "job_tick", job |-> job, outcome |-> "skipped",
                           scheduler |-> o.id, minute |-> now]
                /\ UNCHANGED instances
           ELSE /\ ret' = [op |-> "job_tick", job |-> job, outcome |-> "started",
                           scheduler |-> o.id, minute |-> now]
                /\ instances' = [instances EXCEPT ![job] = @ \cup {ScheduledRunOf(o.id)}]
    /\ UNCHANGED <<now, cacheVars, notifyVars, raceVars, bot, _scheduler_instance, schedulers>>

NextLifecycle ==
    \/ \E t \in JobTimes : Advance(t)
    \/ SetupScheduler
    \/ ShutdownScheduler
    \/ StartAgain
    \/ \E o \in Objects, job \in JobIds : Fire(o, job)
    \/ \E job \in JobIds, id \in 1..MaxSchedulers, api \in NotifyOutcomes, sink_ok \in BOOLEAN :
           JobReturn(job, ScheduledRunOf(id), api, sink_ok)

\* the scheduler module called in any order, from the state after the first
\* setup_scheduler
SpecLifecycle == Init /\ [][NextLifecycle]_vars

-----------------------------------------------------------------------------
(* src/data/cache_service.py: get_smart_fetcher and its callers *)

\* the process serving updates, as main.py brings it up: no scheduler, and no
\* SmartDataFetcher constructed yet
InitImport ==
    /\ now = StartTime
    /\ rows = {}
    /\ nextId = 1
    /\ cache_timeout_minutes = NullInt
    /\ storeUp = TRUE
    /\ lastFetchAt = NullInt
    /\ users = [u \in UserIds |->
                  [telegram_id |-> u, language_code |-> LanguageOf(u), is_subscribed |-> TRUE,
                   push_time |-> DEFAULT_NOTIFICATION_TIME, timezone |-> Zones[u],
                   last_notification_sent |-> NullInt]]
    /\ outbox = {}
    /\ matchLog = [u \in UserIds |-> {}]
    /\ testRuns = 0
    /\ calls = [c \in Coroutines |-> NoCall]
    /\ bot = [app |-> Application, scheduler |-> None, is_running |-> TRUE]
    /\ _scheduler_instance = None
    /\ schedulers = <<>>
    /\ instances = [j \in JobIds |-> {}]
    /\ ret = Idle

\* get_smart_fetcher(requested) followed by the fetcher's
\* get_current_fear_greed_index (force FALSE) or force_refresh (force TRUE)
ThroughSmartFetcher(op, requested, force_refresh, api) ==
    LET window == get_smart_fetcher(cache_timeout_minutes, requested)
    IN  \E o \in get_current_fear_greed_index(rows, nextId, now, storeUp,
                                              window, force_refresh, api) :
            /\ o.saved => \A r \in rows : r.created_at < now
            /\ cache_timeout_minutes' = window
            /\ rows' = o.rows
            /\ nextId' = o.nextId
            /\ lastFetchAt' = IF o.invoked /\ api \in Snapshots THEN now ELSE lastFetchAt
            /\ ret' = [op |-> op, requested |-> requested, window |-> window,
                       force_refresh |-> force_refresh, api |-> api,
                       result |-> o.result, invoked |-> o.invoked, saved |-> o.saved]
            /\ UNCHANGED <<now, storeUp, notifyVars, raceVars, jobVars>>

\* current_handler: get_smart_fetcher(cache_timeout_minutes=30), then
\* get_current_fear_greed_index()
current_handler(api) == ThroughSmartFetcher("current_handler", 30, FALSE, api)

\* force_refresh_data(): get_smart_fetcher() with the default of 30, then
\* force_refresh()
force_refresh_data(api) == ThroughSmartFetcher("force_refresh_data", 30, TRUE, api)

NextSingleton ==
    \/ \E t \in Times : Advance(t)
    \/ \E api \in AdapterOutcomes : current_handler(api)
    \/ \E api \in AdapterOutcomes : force_refresh_data(api)
    \/ SetupScheduler
    \/ ShutdownScheduler

\* the callers of get_smart_fetcher in any order, from a process that has not
\* called it yet
SpecSingleton == InitImport /\ [][NextSingleton]_vars

-----------------------------------------------------------------------------
(* src/bot/scheduler.py: trigger_manual_broadcast *)

\* what config.ADMIN_USER_ID may hold: nothing (-1 for None), or user 1
AdminSettings == {NullInt, 1}

\* who may call: the users and one more account
CallerIds == 1..(MaxUsers + 1)

\* one call of trigger_manual_broadcast
ManualBroadcast(admin, admin_user_id, sinks) ==
    LET done == trigger_manual_broadcast(users, outbox, now, storeUp, get_scheduler,
                                         admin, admin_user_id, sinks)
    IN  /\ users' = done.users
        /\ outbox' = done.outbox
        /\ ret' = [op |-> "manual_broadcast", ADMIN_USER_ID |-> admin,
                   admin_user_id |-> admin_user_id, sinks |-> sinks,
                   returned |-> done.returned]
        /\ UNCHANGED <<now, cacheVars, matchLog, testRuns, raceVars, jobVars>>

NextAdmin ==
    \/ \E t \in JobTimes : Advance(t)
    \/ \E admin \in AdminSettings, caller \in CallerIds, sinks \in [UserIds -> BOOLEAN] :
           ManualBroadcast(admin, caller, sinks)
    \/ \E u \in UserIds, b \in BOOLEAN : update_user_subscription(u, b)
    \/ SetupScheduler
    \/ ShutdownScheduler

\* manual broadcasts by any caller, with and without an administrator
\* configured, with and without a scheduler
SpecAdmin == Init /\ [][NextAdmin]_vars

-----------------------------------------------------------------------------
(* src/bot/scheduler.py: trigger_test_notification and the notification job *)

NextTest ==
    \/ \E t \in NotifyTimes : Advance(t)
    \/ \E api \in NotifyOutcomes, sink_ok \in BOOLEAN :
           Tick([u \in UserIds |-> api], [u \in UserIds |-> sink_ok])
    \/ \E u \in CallerIds, api1, api2 \in NotifyOutcomes, sink_ok \in BOOLEAN :
           TestNotification(u, api1, api2, sink_ok)
    \/ ShutdownScheduler
    \/ StoreFlip

\* the admin's test notification for any account, with and without a
\* scheduler and a store, next to the notification job
SpecTest == Init /\ [][NextTest]_vars

-----------------------------------------------------------------------------
(* Properties of the cache service *)

\* the step just taken was a call of get_current_fear_greed_index
IsCall(r) == r.op = "get_current"

\* the newest snapshot(s) of a store
MostRecent(rs) == {r \in rs : \A q \in rs : q.created_at <= r.created_at}

\* result is row r served from the cache
Serves(result, r) ==
    /\ result # None
    /\ result.cached
    /\ result.score = r.current_value
    /\ result.rating = r.rating
    /\ result.source = r.source
    /\ result.cache_time = r.created_at

\* C1: for every freshness window F, a call with force_refresh = false that finds
\* the store's most recent snapshot younger than F returns that snapshot tagged
\* cached = true, is_stale = false, without invoking the Source Adapter and
\* without writing to the store.
C1_FreshHitBypassesAdapter ==
    [][ ( /\ IsCall(ret')
          /\ ~ret'.force_refresh
          /\ \E r \in MostRecent(rows) : now - r.created_at < cache_timeout_minutes )
        => /\ \E r \in MostRecent(rows) : Serves(ret'.result, r)
           /\ ret'.result.is_stale = FALSE
           /\ ~ret'.invoked
           /\ rows' = rows
           /\ nextId' = nextId ]_vars

\* a call 10 minutes after the snapshot was cached, under a 30-minute window,
\* was answered from the cache
C1_Witness ==
    /\ IsCall(ret)
    /\ ~ret.force_refresh
    /\ cache_timeout_minutes = 30
    /\ ret.result # None
    /\ ret.result.cached
    /\ ~ret.result.is_stale
    /\ now - ret.result.cache_time = 10
    /\ ~ret.invoked

\* the adapter was invoked by the step and produced no snapshot
AdapterFailed(r) == IsCall(r) /\ r.invoked /\ r.api \notin Snapshots

\* the snapshots of a store whose age lies in [lo, hi)
AgedWithin(rs, t, lo, hi) == {r \in rs : t - r.created_at >= lo /\ t - r.created_at < hi}

\* C7 as stated: when the adapter fails and the store holds a snapshot of age
\* >= F and < 180 minutes, the call returns the most recent such snapshot
\* tagged cached = true, is_stale = true.
C7_StaleFallbackMostRecentInBand ==
    [][ ( /\ AdapterFailed(ret')
          /\ AgedWithin(rows, now, cache_timeout_minutes, StaleWindow) # {} )
        => /\ \E r \in MostRecent(AgedWithin(rows, now, cache_timeout_minutes, StaleWindow)) :
                Serves(ret'.result, r)
           /\ ret'.result.is_stale = TRUE ]_vars

\* C7 as amended: when the adapter fails and the store holds a snapshot of age
\* >= F and < 180 minutes, the call returns the most recent snapshot of the
\* store tagged cached = true, is_stale = true; that is the most recent one of
\* age >= F unless the refresh was forced while a younger one existed.
C7_StaleFallbackMostRecent ==
    [][ ( /\ AdapterFailed(ret')
          /\ AgedWithin(rows, now, cache_timeout_minutes, StaleWindow) # {} )
        => /\ \E r \in MostRecent(rows) : Serves(ret'.result, r)
           /\ ret'.result.is_stale = TRUE
           /\ ( ~ret'.force_refresh
                => \E r \in MostRecent(AgedWithin(rows, now, cache_timeout_minutes, StaleWindow)) :
                       Serves(ret'.result, r) ) ]_vars

\* the adapter failed with a 90-minute-old snapshot in the store, and the call
\* returned it tagged stale
C7_Witness ==
    /\ AdapterFailed(ret)
    /\ ret.result # None
    /\ ret.result.cached
    /\ ret.result.is_stale = TRUE
    /\ now - ret.result.cache_time = 90
    /\ \A r \in rows : r.created_at <= ret.result.cache_time

\* a snapshot as get_current_fear_greed_index hands it out
WellFormed(result) ==
    /\ {"score", "rating", "source", "cached"} \subseteq DOMAIN result
    /\ result.source # "Unknown"

\* C8: get_current_fear_greed_index never raises: whatever the adapter and the
\* store do, it returns a snapshot or None; and when the adapter fails and the
\* store has no snapshot within the stale window (or cannot be read), it
\* returns None, not a zero- or default-valued snapshot.
C8_NeverRaisesNoDataIsNone ==
    [][ IsCall(ret')
        => /\ ret'.result # Raised
           /\ ret'.result = None \/ WellFormed(ret'.result)
           /\ ( /\ ret'.api \notin Snapshots
                /\ ~storeUp \/ \A r \in rows : now - r.created_at > StaleWindow )
              => ret'.result = None ]_vars

\* the adapter raised while the store was down, or while its only snapshot was
\* older than the stale window, and the call returned None
C8_Witness ==
    /\ IsCall(ret)
    /\ ret.api = Raised
    /\ ret.invoked
    /\ ret.result = None
    /\ rows # {}
    /\ ~storeUp \/ \A r \in rows : now - r.created_at > StaleWindow

\* C9: after a successful fetch at time t, no call with force_refresh = false
\* made before t + F invokes the adapter (so two such calls within 10 minutes
\* of each other, the first of which fetched, invoke it once in total).
C9_NoRefetchWithinWindow ==
    [][ ( /\ IsCall(ret')
          /\ ~ret'.force_refresh
          /\ lastFetchAt # NullInt
          /\ now < lastFetchAt + cache_timeout_minutes )
        => ~ret'.invoked ]_vars

\* window 30: a call 10 minutes after a successful fetch did not fetch again
C9_Witness ==
    /\ IsCall(ret)
    /\ ~ret.force_refresh
    /\ cache_timeout_minutes = 30
    /\ lastFetchAt = now - 10
    /\ ~ret.invoked
    /\ ret.result # None

\* no two rows of the store carry a date of the same UTC calendar day
OneRowPerDay(rs) == \A r, q \in rs : DateOf(r.date) = DateOf(q.date) => r = q

\* C10: every save leaves at most one row per UTC calendar day; a save on a day
\* that already has a row adds no row, keeps that row's id and sets its
\* created_at strictly later than it was.
C10_OneRowPerDayUpdatedInPlace ==
    [][ (IsCall(ret') /\ ret'.saved)
        => /\ OneRowPerDay(rows')
           /\ \A r \in rows : DateOf(r.date) = DateOf(now)
                => /\ Cardinality(rows') = Cardinality(rows)
                   /\ \E q \in rows' : q.id = r.id /\ q.created_at > r.created_at ]_vars

\* two days have a row each, and today's row was saved over after it was created
C10_Witness ==
    /\ IsCall(ret)
    /\ ret.saved
    /\ Cardinality(rows) = 2
    /\ \E r \in rows : DateOf(r.date) = DateOf(now) /\ r.created_at = now /\ r.date < now

-----------------------------------------------------------------------------
(* The notification job *)

\* the calendar day of time t on the wall clock of a user row
LocalDay(row, t) == DateOf(UserCurrentTime(row, t))

\* the messages the sink took for user u
SentTo(u) == {m \in outbox : m.to = u}

\* C2: over any sequence of ticks and changes of push time, with the timezone
\* fixed, the sink takes at most one scheduled notification per user and
\* calendar day of the user's own timezone.
C2_AtMostOneScheduledPerLocalDay ==
    \A m1, m2 \in outbox :
        (/\ m1.by = "tick" /\ m2.by = "tick"
         /\ m1.to = m2.to
         /\ LocalDay(users[m1.to], m1.at) = LocalDay(users[m1.to], m2.at))
        => m1 = m2

\* a tick has just run, and some user's wall clock matched the push time at two
\* ticks of one local day
C2_Witness ==
    /\ ret.op = "tick"
    /\ \E u \in UserIds : \E t1, t2 \in matchLog[u] :
           /\ t1 < t2 /\ t2 = now
           /\ LocalDay(users[u], t1) = LocalDay(users[u], t2)

\* shouldNotify as the contract states it: the local hour and minute equal the
\* push time, and the last notification is absent or on an earlier local day
ShouldNotify(row, t) ==
    /\ TimeMatches(LoadUser(row), t)
    /\ \/ row.last_notification_sent = NullInt
       \/ LocalDay(row, row.last_notification_sent) < LocalDay(row, t)

\* C3: at every tick _should_send_notification answers true for a subscribed
\* user in a known timezone exactly when the local hour and minute equal the
\* push time and the last notification is absent or on an earlier local day.
C3_ShouldSendIffMatchAndNotYetToday ==
    [][ret'.op = "tick" =>
         \A u \in UserIds :
             (users[u].is_subscribed /\ users[u].timezone \in DOMAIN UtcOffset)
             => (u \in ret'.eligible <=> ShouldNotify(users[u], now))]_vars

\* C4: in every tick each subscribed user whose local time matches the push
\* time and who has not been notified on that local day is sent a message in
\* that tick, when the adapter delivers a snapshot and the sink accepts.
C4_EligibleUserIsSentInTick ==
    [][ret'.op = "tick" =>
         \A u \in UserIds :
             (/\ users[u].is_subscribed
              /\ users[u].timezone \in DOMAIN UtcOffset
              /\ ShouldNotify(users[u], now)
              /\ \A m \in SentTo(u) : LocalDay(users[u], m.at) < LocalDay(users[u], now)
              /\ ret'.apis[u] \in Snapshots
              /\ ret'.sinks[u])
             => [to |-> u, at |-> now, by |-> "tick"] \in outbox']_vars

\* C5: once the sink has confirmed a notification of the scheduler's send path,
\* the user's stored last_notification_sent is the time of the latest
\* confirmed send.
C5_ConfirmedSendIsPersisted ==
    \A u \in UserIds :
        SentTo(u) # {} =>
            \E m \in SentTo(u) :
                /\ \A q \in SentTo(u) : q.at <= m.at
                /\ users[u].last_notification_sent = m.at

\* the steps of user u in a run, in the order taken
RECURSIVE StepsOf(_, _)
StepsOf(steps, u) ==
    IF steps = <<>> THEN <<>>
    ELSE IF Head(steps)[1] = u THEN <<Head(steps)[2]>> \o StepsOf(Tail(steps), u)
    ELSE StepsOf(Tail(steps), u)

IsPrefix(p, q) == Len(p) <= Len(q) /\ \A i \in 1..Len(p) : p[i] = q[i]

HasStep(steps, u, name) == \E i \in 1..Len(steps) : steps[i] = <<u, name>>

\* C6: in a run of the notification job, and of the send path by itself, the
\* steps of each user come in the order eligibility check, snapshot read,
\* render, send, record; the record step happens only after the sink has
\* confirmed the send, and last_notification_sent stays as it was when there
\* is no record step (failed send, no snapshot, user not eligible).
C6_StepsInOrderRecordAfterConfirmedSend ==
    [][ret'.op \in {"tick", "test"} =>
         \A u \in UserIds :
             LET mine == StepsOf(ret'.steps, u)
                 accepted == IF ret'.op = "tick" THEN ret'.sinks[u] ELSE ret'.sink_ok
             IN  /\ IF ret'.op = "tick"
                    THEN IsPrefix(mine, <<"check", "data", "render", "send", "record">>)
                    ELSE IsPrefix(mine, <<"data", "render", "send", "record">>)
                 /\ HasStep(ret'.steps, u, "record") => accepted
                 /\ ~HasStep(ret'.steps, u, "record") =>
                        users'[u].last_notification_sent = users[u].last_notification_sent]_vars

\* the send path ran to its end for a user: the sink confirmed and the record
\* step followed the send
C6_Witness ==
    /\ ret.op = "test"
    /\ ret.returned
    /\ StepsOf(ret.steps, ret.user_id) = <<"data", "render", "send", "record">>
    /\ SentTo(ret.user_id) # {}

-----------------------------------------------------------------------------
(* Interleaved calls *)

\* C11: however two executions of get_current_fear_greed_index interleave at
\* their awaits, the store keeps one row per day and no later save fails.
C11_ConcurrentSavesSafe ==
    /\ OneRowPerDay(rows)
    /\ \A c \in Coroutines : calls[c].saved # "failed"

-----------------------------------------------------------------------------
(* Write-through on a fetch *)

\* the adapter handed a snapshot to the call
Fetched(r) == IsCall(r) /\ r.invoked /\ r.api \in Snapshots

\* result carries the adapter's snapshot, tagged as not from the cache
ReturnsFresh(result, api) ==
    /\ result # None
    /\ result.score = api.current_value
    /\ result.rating = api.rating
    /\ result.source = api.source
    /\ result.cached = FALSE

\* store rs holds the adapter's snapshot as today's row, written at time t
HoldsSnapshot(rs, api, t) ==
    \E r \in rs : /\ DateOf(r.date) = DateOf(t)
                  /\ r.created_at = t
                  /\ r.current_value = api.current_value
                  /\ r.rating = api.rating
                  /\ r.source = api.source

-----------------------------------------------------------------------------
(* Forced refresh *)

\* C13: a forced refresh invokes the adapter whatever the age of the cached
\* snapshot; when the adapter fails it returns the store's most recent
\* snapshot younger than the stale window tagged is_stale = true, and None
\* when the store has none within the window or does not answer.
C13_ForcedRefreshAlwaysFetches ==
    [][ (IsCall(ret') /\ ret'.force_refresh)
        => /\ ret'.invoked
           /\ (ret'.api \notin Snapshots /\ storeUp
               /\ AgedWithin(rows, now, 0, StaleWindow) # {})
              => /\ \E r \in MostRecent(rows) : Serves(ret'.result, r)
                 /\ ret'.result.is_stale = TRUE
           /\ (ret'.api \notin Snapshots
               /\ (~storeUp \/ \A r \in rows : now - r.created_at > StaleWindow))
              => ret'.result = None ]_vars

\* a forced refresh made while the cached snapshot was still fresh went to the
\* adapter, which failed, and the cached snapshot came back tagged stale
C13_Witness ==
    /\ IsCall(ret)
    /\ ret.force_refresh
    /\ ret.invoked
    /\ ret.api \notin Snapshots
    /\ ret.result # None
    /\ ret.result.is_stale = TRUE
    /\ now - ret.result.cache_time < cache_timeout_minutes

-----------------------------------------------------------------------------
(* Ticks over several users and zones *)

\* the tick that just ran found the local time of user u on its push time
MatchedNow(u) == ret.op = "tick" /\ u \in ret.matched

\* C14: when several subscribers are due in one tick (local time on the push
\* time, not notified that local day), a snapshot is there and the send to
\* some of them fails, every other one is sent the notification in that tick
\* and has last_notification_sent set to the tick's time, and a subscriber
\* whose send failed has it unchanged.
C14_SendFailureIsolated ==
    [][ret'.op = "tick" =>
         LET due == {u \in UserIds : /\ users[u].is_subscribed
                                     /\ users[u].timezone \in DOMAIN UtcOffset
                                     /\ ShouldNotify(users[u], now)
                                     /\ ret'.apis[u] \in Snapshots}
         IN  (Cardinality(due) >= 2 /\ \E u \in due : ~ret'.sinks[u])
             => \A u \in due :
                    IF ret'.sinks[u]
                    THEN /\ [to |-> u, at |-> now, by |-> "tick"] \in outbox'
                         /\ users'[u].last_notification_sent = now
                    ELSE users'[u].last_notification_sent = users[u].last_notification_sent]_vars

\* one subscriber in Pacific/Pago_Pago (UTC-11), another in Pacific/Tongatapu
\* (UTC+13), both on the same push time
FarApart(u, v) ==
    /\ users[u].is_subscribed /\ users[v].is_subscribed
    /\ users[u].timezone = "Pacific/Pago_Pago"
    /\ users[v].timezone = "Pacific/Tongatapu"
    /\ users[u].push_time = users[v].push_time

C16_InvalidZoneEvaluatedAsUtc ==
    ret.op = "tick" =>
        \A u \in UserIds :
            (users[u].is_subscribed /\ users[u].timezone \notin DOMAIN UtcOffset)
            => LET as_utc == [LoadUser(users[u]) EXCEPT !.timezone = "UTC"]
               IN  /\ MatchedNow(u) <=> TimeMatches(as_utc, now)
                   /\ u \in ret.eligible <=> _should_send_notification(as_utc, now)
                   /\ \A v \in UserIds :
                          users[v].is_subscribed => HasStep(ret.steps, v, "check")

\* a tick at 09:00 UTC matched a subscriber of an unknown zone on push time
\* 09:00 and went on to check a subscriber listed after it
C16_Witness ==
    /\ ret.op = "tick"
    /\ \E u, v \in UserIds :
           /\ u < v
           /\ users[u].timezone \notin DOMAIN UtcOffset
           /\ users[u].push_time = "09:00"
           /\ MatchedNow(u)
           /\ HourOf(now) = 9
           /\ HasStep(ret.steps, v, "check")

-----------------------------------------------------------------------------
(* The Source Adapter on the wire *)

\* the call in ret went to the Source Adapter
IsFetch(r) == r.op = "fetch_current" /\ r.invoked

\* the positions in a trace of the GET requests sent to one provider
RequestsTo(provider, trace) ==
    {i \in DOMAIN trace : trace[i].ev = "get" /\ trace[i].provider = provider}

\* C17: in one call of the Source Adapter CNN is requested at most MAX_RETRIES
\* times, every CNN request after the first comes right after a sleep whose
\* length is drawn from the range 1..3 seconds, and the call ends after a
\* bounded number of requests and sleeps.
C17_CnnRequestsBoundedAndDelayed ==
    IsFetch(ret) =>
        LET cnn == RequestsTo("cnn", ret.trace)
        IN  /\ Cardinality(cnn) <= MAX_RETRIES
            /\ \A i \in cnn :
                   (\E j \in cnn : j < i) =>
                       /\ i > 1
                       /\ ret.trace[i - 1].ev = "sleep"
                       /\ ret.trace[i - 1].seconds \in Delays
            /\ Cardinality(Delays) > 1
            /\ Len(ret.trace) <= 2 * MAX_RETRIES

\* a call that needed every attempt and slept for two different lengths
C17_Witness ==
    /\ IsFetch(ret)
    /\ Cardinality(RequestsTo("cnn", ret.trace)) = MAX_RETRIES
    /\ \E i, j \in DOMAIN ret.trace :
           /\ ret.trace[i].ev = "sleep"
           /\ ret.trace[j].ev = "sleep"
           /\ ret.trace[i].seconds # ret.trace[j].seconds

\* some answer of CNN in the trace parsed into a snapshot
PrimaryProduced(trace) ==
    \E i \in RequestsTo("cnn", trace) :
        /\ trace[i].response.kind = "json"
        /\ Truthy(_parse_cnn_data(trace[i].response.body))

\* the source tag of the provider a request went to
SourceOf(provider) == IF provider = "cnn" THEN "CNN Official API" ELSE "Alternative.me API"

\* C18: in one call of the Source Adapter Alternative.me is requested exactly
\* once when CNN produced no snapshot in its attempts and not at all when CNN
\* produced one, and the source of a returned snapshot names the provider that
\* answered the last request of the call.
C18_BackupOnceIffPrimaryFailed ==
    (IsFetch(ret) /\ ret.api # Raised) =>
        LET backups == Cardinality(RequestsTo("backup", ret.trace))
            last == ret.trace[Len(ret.trace)]
        IN  /\ PrimaryProduced(ret.trace) => backups = 0
            /\ ~PrimaryProduced(ret.trace) => backups = 1
            /\ Truthy(ret.api) =>
                   /\ last.ev = "get"
                   /\ last.response.kind = "json"
                   /\ ret.api.source = SourceOf(last.provider)
                   /\ ret.result.source = SourceOf(last.provider)

\* CNN used up its attempts and the one request to Alternative.me produced
\* the snapshot that was returned
C18_Witness ==
    /\ IsFetch(ret)
    /\ Cardinality(RequestsTo("cnn", ret.trace)) = MAX_RETRIES
    /\ Cardinality(RequestsTo("backup", ret.trace)) = 1
    /\ Truthy(ret.api)
    /\ ret.api.source = "Alternative.me API"

\* the index values the domain allows
ValidRange == 0..100

\* a provider's answer carries an index value outside the valid range
OutOfRange(provider, response) ==
    /\ response.kind = "json"
    /\ response.body.json = "object"
    /\ IF provider = "cnn"
       THEN /\ "fear_and_greed" \in DOMAIN response.body.members
            /\ response.body.members.fear_and_greed.json = "object"
            /\ "score" \in DOMAIN response.body.members.fear_and_greed.members
            /\ response.body.members.fear_and_greed.members.score \notin ValidRange
       ELSE /\ "data" \in DOMAIN response.body.members
            /\ Len(response.body.members.data) > 0
            /\ "value" \in DOMAIN response.body.members.data[1]
            /\ response.body.members.data[1].value \in IntStrings
            /\ IntOf(response.body.members.data[1].value) \notin ValidRange

\* C19: when a provider answers with a value outside 0..100, the Source
\* Adapter returns no snapshot made from that answer (as it is or moved into
\* range) and no row made from it is written to the cache.
C19_OutOfRangeValueRejected ==
    IsFetch(ret) =>
        \A i \in DOMAIN ret.trace :
            (ret.trace[i].ev = "get" /\ OutOfRange(ret.trace[i].provider, ret.trace[i].response))
                => /\ ~(/\ Truthy(ret.api)
                        /\ ret.api.source = SourceOf(ret.trace[i].provider))
                   /\ \A r \in rows : r.source # SourceOf(ret.trace[i].provider)

\* the answer of Alternative.me in the trace parsed into a snapshot
SecondaryProduced(trace) ==
    \E i \in RequestsTo("backup", trace) :
        /\ trace[i].response.kind = "json"
        /\ Truthy(_parse_backup_data(trace[i].response.body))

\* both providers were asked and neither produced a snapshot
BothFailed(trace) ==
    /\ RequestsTo("cnn", trace) # {}
    /\ RequestsTo("backup", trace) # {}
    /\ ~PrimaryProduced(trace)
    /\ ~SecondaryProduced(trace)

\* every request of the call failed on the network: it raised (timeout,
\* connection error)
NetworkFailure(trace) ==
    \A i \in DOMAIN trace : trace[i].ev = "get" => trace[i].response.kind = "error"

\* the last answer of each provider arrived with status 200 and could not be
\* parsed into a snapshot
ParseFailure(trace) ==
    \A provider \in {"cnn", "backup"} :
        \E i \in RequestsTo(provider, trace) :
            /\ \A j \in RequestsTo(provider, trace) : j <= i
            /\ trace[i].response.kind \in {"json", "notjson"}

\* C20: when both providers fail, the Source Adapter returns a value instead
\* of raising, and the value returned after a network failure differs from
\* every value returned after a parse failure.
C20_FailureValueTellsNetworkFromParse ==
    (IsFetch(ret) /\ BothFailed(ret.trace) /\ NetworkFailure(ret.trace)) =>
        /\ ret.api # Raised
        /\ \A responses \in [1..MAX_RETRIES -> CnnResponses], backup \in BackupResponses :
               LET other == FearGreedDataFetcher_get_current_fear_greed_index(
                                responses, [a \in 1..(MAX_RETRIES - 1) |-> 1], backup)
               IN  (BothFailed(other.trace) /\ ParseFailure(other.trace))
                       => other.result # ret.api

-----------------------------------------------------------------------------
(* Jobs *)

\* C21: at no time are two runs of the same job's function executing,
\* whoever launched them.
C21_OneRunPerJob ==
    \A job \in JobIds : Cardinality(instances[job]) <= 1

\* the step is the end of a run of the given job
RunOf(job) == ret'.op = "job_return" /\ ret'.job = job

\* C22: a run of the health check leaves the fear_greed_data table as it
\* found it: no row is added and no row is changed.
C22_HealthCheckWritesNothing ==
    [][RunOf("health_check") => rows' = rows]_vars

-----------------------------------------------------------------------------
(* The status query *)

\* C23: a call of get_cache_status does not invoke the Source Adapter and
\* leaves the fear_greed_data table, its id counter and the users table as
\* they were, whatever the age of the cache, with no row at all, and with the
\* store up or down.
C23_CacheStatusReadOnly ==
    [][ret'.op = "get_cache_status" =>
           /\ ~ret'.invoked
           /\ ~ret'.saved
           /\ rows' = rows
           /\ nextId' = nextId
           /\ lastFetchAt' = lastFetchAt
           /\ users' = users]_vars

\* a status call that found a snapshot older than the freshness window, where
\* get_current_fear_greed_index would have gone to the Source Adapter
C23_Witness ==
    /\ ret.op = "get_cache_status"
    /\ ret.api \in Snapshots
    /\ ret.result.has_cache
    /\ ~ret.result.is_fresh

-----------------------------------------------------------------------------
(* The stale window *)

-----------------------------------------------------------------------------
(* Notification runs without data *)

\* no data can be had at this instant: the adapter fails for the user and the
\* store holds no snapshot within the stale window
NoDataFor(u, apis) ==
    /\ apis[u] \notin Snapshots
    /\ \A r \in rows : now - r.created_at > StaleWindow

-----------------------------------------------------------------------------
(* Retention *)

\* C26: a run of the cleanup job over a store that answers deletes the rows
\* of fear_greed_data dated more than CACHE_CLEANUP_DAYS days ago and no
\* other, changes no row it keeps and no row of the users table, and reports
\* the number of rows it deleted.
C26_CleanupDeletesExactlyOldRows ==
    [][ret'.op = "cleanup" =>
          /\ ~ret'.raised
          /\ rows' = {r \in rows : now - r.date <= CACHE_CLEANUP_DAYS * MinutesPerDay}
          /\ ret'.cleaned_count = Cardinality(rows \ rows')
          /\ users' = users
          /\ nextId' = nextId]_vars

\* a run that deleted a row and kept another
C26_Witness ==
    /\ ret.op = "cleanup"
    /\ ret.cleaned_count >= 1
    /\ rows # {}

-----------------------------------------------------------------------------
(* Broadcast *)

\* the subscribed users a broadcast in the given language is meant for
Recipients(us, language) ==
    {u \in DOMAIN us : us[u].is_subscribed
                       /\ (language = "" \/ us[u].language_code = language)}

\* C27: over a store that answers, broadcast_message attempts one send to
\* each subscribed user of the language asked for and to nobody else,
\* whichever sends fail; sent and failed add up to the number of these users,
\* the sink holds a message for exactly those whose send succeeded, and no
\* row of the users table changes.
C27_BroadcastOneAttemptEach ==
    [][ret'.op = "broadcast" =>
          LET to == Recipients(users, ret'.language)
              attempts == ret'.attempts
          IN  /\ ~ret'.raised
              /\ {attempts[i] : i \in DOMAIN attempts} = to
              /\ Len(attempts) = Cardinality(to)
              /\ ret'.sent_count = Cardinality({u \in to : ret'.sinks[u]})
              /\ ret'.failed_count = Cardinality({u \in to : ~ret'.sinks[u]})
              /\ ret'.sent_count + ret'.failed_count = Cardinality(to)
              /\ \A u \in to : ret'.sinks[u] =>
                     [to |-> u, at |-> now, by |-> "broadcast"] \in outbox'
              /\ \A m \in outbox' \ outbox : m.to \in to /\ ret'.sinks[m.to]
              /\ users' = users]_vars

\* a broadcast whose first send failed and whose second went through
C27_Witness ==
    /\ ret.op = "broadcast"
    /\ ret.attempts = <<1, 2>>
    /\ ~ret.sinks[1]
    /\ ret.failed_count = 1
    /\ ret.sent_count = 1
    /\ [to |-> 2, at |-> now, by |-> "broadcast"] \in outbox

-----------------------------------------------------------------------------
(* A notification run without the store *)

\* C28: a run of the notification job that finds the store down ends at
\* once: it comes to no subscriber, hands nothing to the sink and writes
\* neither table; it leaves the runs of the other jobs and the scheduler as
\* they are, and it leaves no run of its own behind, so the job's next tick
\* starts a run as usual.
C28_StoreDownEndsRunOnly ==
    [][(RunOf("daily_notification_check") /\ ~storeUp) =>
          /\ ret'.steps = <<>>
          /\ outbox' = outbox
          /\ users' = users
          /\ rows' = rows
          /\ \A job \in JobIds \ {"daily_notification_check"} :
                 instances'[job] = instances[job]
          /\ _scheduler_instance' = _scheduler_instance
          /\ ScheduledRun \notin instances'["daily_notification_check"]]_vars

\* a run of the notification job has just ended over a store that is down,
\* with subscribed users in the table and a run of another job executing
C28_Witness ==
    /\ ret.op = "job_return"
    /\ ret.job = "daily_notification_check"
    /\ ~storeUp
    /\ ret.steps = <<>>
    /\ \E u \in UserIds : users[u].is_subscribed
    /\ instances["market_data_update"] # {}


-----------------------------------------------------------------------------
(* The notification status *)

\* the status entry of user u, if the status has one
EntryOf(status, u) ==
    {status.user_details[i] : i \in {j \in 1..Len(status.user_details) :
                                        status.user_details[j].user_id = u}}

\* C29: check_notification_status sends nothing and changes no user and no
\* snapshot row, and for every subscribed user it reports a should_notify_now
\* equal to what _should_send_notification returns for that user at that minute
C29_StatusReadOnlyAndReportsEligibility ==
    [][ret'.op = "check_notification_status" =>
          /\ outbox' = outbox
          /\ users' = users
          /\ rows' = rows
          /\ ret'.status.error = None =>
                \A u \in UserIds :
                    users[u].is_subscribed =>
                        \E e \in EntryOf(ret'.status, u) :
                            /\ "should_notify_now" \in DOMAIN e
                            /\ e.should_notify_now
                                 = _should_send_notification(LoadUser(users[u]), now)]_vars


-----------------------------------------------------------------------------
(* The scheduler of the running process *)

\* C30: once initialize() and start() are done and until stop(), the
\* notification scheduler is running, and every time the interval elapses the
\* notification-check job fires or finds its previous run still executing
C30_SchedulerRunsWhileProcessRuns ==
    [][bot.is_running =>
          /\ _scheduler_instance # None
          /\ _scheduler_instance # None => _scheduler_instance.running
          /\ ret'.op = "interval" =>
                \/ "daily_notification_check" \in ret'.fired
                \/ ScheduledRun \in instances["daily_notification_check"]]_vars


-----------------------------------------------------------------------------
(* The job registry *)

\* the four jobs, each under its own id with its trigger
FourJobs(jobs) ==
    /\ Len(jobs) = 4
    /\ \A i, j \in 1..Len(jobs) : jobs[i].id = jobs[j].id => i = j
    /\ \E i \in 1..4 : /\ jobs[i].id = "daily_notification_check"
                       /\ jobs[i].func = "_check_daily_notifications"
                       /\ jobs[i].trigger = IntervalTrigger(NOTIFICATION_CHECK_INTERVAL)
    /\ \E i \in 1..4 : /\ jobs[i].id = "market_data_update"
                       /\ jobs[i].func = "_update_market_data"
                       /\ jobs[i].trigger = IntervalTrigger(DATA_UPDATE_INTERVAL)
    /\ \E i \in 1..4 : /\ jobs[i].id = "health_check"
                       /\ jobs[i].func = "_health_check"
                       /\ jobs[i].trigger = IntervalTrigger(15)
    /\ \E i \in 1..4 : /\ jobs[i].id = "cleanup_old_data"
                       /\ jobs[i].func = "_cleanup_old_data"
                       /\ jobs[i].trigger = CronTrigger(2, 0)

\* C31: a started NotificationScheduler holds exactly the four jobs, each
\* under its own id with its trigger, and start() on a running scheduler
\* leaves its jobs as they are
C31_FourJobsStartIdempotent ==
    [][/\ (ret'.op \in {"setup_scheduler", "start"}) => FourJobs(_scheduler_instance'.jobs)
       /\ (ret'.op = "start" /\ _scheduler_instance.running) =>
              _scheduler_instance'.jobs = _scheduler_instance.jobs]_vars

C31_Witness ==
    /\ ret.op = "start"
    /\ _scheduler_instance # None
    /\ _scheduler_instance.running
    /\ _scheduler_instance.id = 2
    /\ FourJobs(_scheduler_instance.jobs)


-----------------------------------------------------------------------------
(* One scheduler *)

\* C36: every NotificationScheduler that is running is the one get_scheduler()
\* returns, so at most one is running, and the notification check of one
\* minute is never executed by two schedulers
C36_OnlySchedulerInUseRuns ==
    /\ \A o \in Objects : o.running => (get_scheduler # None /\ o = get_scheduler)
    /\ Cardinality({o \in Objects : o.running}) <= 1
    /\ (ret.op = "job_tick" /\ ret.job = "daily_notification_check") =>
           \A r \in instances["daily_notification_check"] : r.scheduler = ret.scheduler


-----------------------------------------------------------------------------
(* The one service instance *)

\* the callers of get_smart_fetcher
SmartFetcherCallers == {"current_handler", "force_refresh_data", "setup_scheduler"}

\* C34: the first call of get_smart_fetcher fixes the freshness window of the
\* one instance; every later call, whatever window it asks for, leaves the
\* window as it is, and every caller reads through that window
C34_WindowFixedByFirstCall ==
    [][/\ cache_timeout_minutes # NullInt => cache_timeout_minutes' = cache_timeout_minutes
       /\ ret'.op \in SmartFetcherCallers =>
              /\ cache_timeout_minutes' # NullInt
              /\ cache_timeout_minutes = NullInt => cache_timeout_minutes' = ret'.requested
              /\ ret'.op # "setup_scheduler" => ret'.window = cache_timeout_minutes']_vars

\* the handler asks for 30 minutes and is served a 40 minutes old snapshot
\* from the cache, the window being the scheduler's 60
C34_Witness ==
    /\ ret.op = "current_handler"
    /\ ret.requested = 30
    /\ cache_timeout_minutes = 60
    /\ ~ret.invoked
    /\ ret.result # None
    /\ \A r \in rows : now - r.created_at > 30


-----------------------------------------------------------------------------
(* Subscribers only *)

\* the messages a step hands to the sink on behalf of the notification job or
\* of a broadcast
SentNow == {m \in outbox' \ outbox : m.by \in {"tick", "broadcast"}}

\* C32: a notification run or a broadcast sends only to users whose
\* is_subscribed was true when it read the users; a user who has unsubscribed
\* is sent nothing by any run or broadcast until subscribed again
C32_OnlySubscribedAreSent ==
    [][\A m \in SentNow : users[m.to].is_subscribed]_vars

\* a broadcast whose sink would take a message for everybody reaches the
\* subscribed user and leaves out the one who unsubscribed
C32_Witness ==
    /\ ret.op = "broadcast"
    /\ ret.language = ""
    /\ \A u \in UserIds : ret.sinks[u]
    /\ \E u, v \in UserIds :
          /\ ~users[u].is_subscribed
          /\ users[v].is_subscribed
          /\ ret.attempts = <<v>>
          /\ [to |-> v, at |-> now, by |-> "broadcast"] \in outbox
          /\ \A m \in outbox : m.to # u


-----------------------------------------------------------------------------
(* Values come from the provider *)

\* the value a provider's response carries in its value field, if it does
ValuesIn(provider, response) ==
    IF response.kind # "json" \/ response.body.json # "object" THEN {}
    ELSE IF provider = "cnn"
    THEN IF /\ "fear_and_greed" \in DOMAIN response.body.members
            /\ response.body.members.fear_and_greed.json = "object"
            /\ "score" \in DOMAIN response.body.members.fear_and_greed.members
         THEN {response.body.members.fear_and_greed.members.score}
         ELSE {}
    ELSE IF /\ "data" \in DOMAIN response.body.members
            /\ Len(response.body.members.data) > 0
            /\ "value" \in DOMAIN response.body.members.data[1]
            /\ response.body.members.data[1].value \in IntStrings
         THEN {IntOf(response.body.members.data[1].value)}
         ELSE {}

\* C33: every snapshot the Source Adapter returns carries a value that the
\* provider it names sent in its response; a response without the value field
\* or its enclosing structure yields no snapshot
C33_ValueWasInResponse ==
    (IsFetch(ret) /\ ret.api # Raised /\ Truthy(ret.api)) =>
        \E i \in DOMAIN ret.trace :
            /\ ret.trace[i].ev = "get"
            /\ SourceOf(ret.trace[i].provider) = ret.api.source
            /\ ret.api.current_value \in ValuesIn(ret.trace[i].provider, ret.trace[i].response)


-----------------------------------------------------------------------------
(* Retention and the stale window *)

\* C37: whatever the retention horizon, one day or more, a cleanup run
\* deletes no row whose created_at lies within the stale window of the time
\* of the run
C37_CleanupKeepsServableRows ==
    [][(ret'.op = "cleanup" /\ ret'.days_to_keep >= 1) =>
          \A r \in rows \ rows' : now - r.created_at > StaleWindow]_vars


-----------------------------------------------------------------------------
(* Who may broadcast *)

\* C38: for every caller other than the configured administrator, and for
\* every caller when no administrator is configured, trigger_manual_broadcast
\* returns False and sends no message
C38_OnlyAdminBroadcasts ==
    [][(ret'.op = "manual_broadcast" /\ ret'.admin_user_id # ret'.ADMIN_USER_ID) =>
          /\ ~ret'.returned
          /\ outbox' = outbox]_vars


-----------------------------------------------------------------------------
(* The test notification *)

\* the message of the test notification the last handler was asked for
TestMessage == [to |-> ret.user_id, at |-> now, by |-> "test"]

\* C35: a test notification runs no eligibility check, and when the sink
\* confirms its message the target's last_notification_sent is set to the
\* current time, which the notification job reads later that day
C35_TestSendIsRecorded ==
    [][ret'.op = "test" =>
          /\ ~HasStep(ret'.steps, ret'.user_id, "check")
          /\ TestMessage' \in outbox' =>
                 users'[ret'.user_id].last_notification_sent = now]_vars

\* C39: trigger_test_notification returns True exactly when the sink accepted
\* the test message; it returns False when the send failed and when there is
\* no scheduler, no such user or no snapshot
C39_TrueOnlyWhenSinkAccepted ==
    ret.op = "test" => (ret.returned <=> TestMessage \in outbox)

=============================================================================
